---------------------------- MODULE Spec2Model ----------------------------
(***************************************************************************)
(* ByteSchema (bsp.hpp): a protocol-tag driven binary codec.               *)
(*                                                                         *)
(* Integers are bit vectors (tuples of 0/1, index 1 = least significant    *)
(* bit) of the C++ type's width, so that 64-bit shifts, truncating casts   *)
(* and sign extension are computed as the code computes them.  Bytes are   *)
(* naturals 0..255.  A type is a record [k |-> kind, ...], a protocol tag  *)
(* a record [p |-> name, n |-> N].                                         *)
(***************************************************************************)
EXTENDS Integers, Sequences, FiniteSets, TLC

(***************************************************************************)
(* Bit vectors                                                             *)
(***************************************************************************)
\* Width of uint64_t / int64_t, the type utils:: computes in.
W64 == 64

\* Number of low bits that fit a model integer.
SmallBits == 30

Pow2(n) == 2 ^ n

\* The w-bit pattern of the natural n (n < 2^SmallBits).
Bits(n, w) == [i \in 1..w |-> IF i <= SmallBits THEN (n \div Pow2(i - 1)) % 2 ELSE 0]

RECURSIVE SumBits(_, _)
SumBits(b, i) == IF i = 0 THEN 0 ELSE b[i] * Pow2(i - 1) + SumBits(b, i - 1)

\* Whether a bit above the SmallBits low ones is set.
IsBig(b) == \E i \in (SmallBits + 1)..Len(b) : b[i] = 1

\* The natural value of the low SmallBits bits.
Val(b) == SumBits(b, IF Len(b) < SmallBits THEN Len(b) ELSE SmallBits)

\* b > n as unsigned numbers (n < 2^SmallBits).
BvGt(b, n) == IsBig(b) \/ Val(b) > n

\* b >= n as unsigned numbers.
BvGe(b, n) == IsBig(b) \/ Val(b) >= n

BvXor(a, b) == [i \in 1..Len(a) |-> (a[i] + b[i]) % 2]

BvOr(a, b) == [i \in 1..Len(a) |-> IF a[i] + b[i] > 0 THEN 1 ELSE 0]

BvAnd(a, b) == [i \in 1..Len(a) |-> a[i] * b[i]]

BvNot(a) == [i \in 1..Len(a) |-> 1 - a[i]]

\* a + 1 modulo 2^Len(a).
BvInc(a) == [i \in 1..Len(a) |-> IF \A j \in 1..(i - 1) : a[j] = 1 THEN 1 - a[i] ELSE a[i]]

\* a << k, bits shifted past the width are lost.
BvShl(a, k) == [i \in 1..Len(a) |-> IF i - k >= 1 THEN a[i - k] ELSE 0]

\* Logical a >> k.
BvShr(a, k) == [i \in 1..Len(a) |-> IF i + k <= Len(a) THEN a[i + k] ELSE 0]

\* Arithmetic a >> k (the sign bit fills).
BvSar(a, k) == [i \in 1..Len(a) |-> IF i + k <= Len(a) THEN a[i + k] ELSE a[Len(a)]]

\* static_cast to an unsigned/signed type of w bits from an unsigned source.
ZeroExt(a, w) == [i \in 1..w |-> IF i <= Len(a) THEN a[i] ELSE 0]

\* static_cast to a type of w bits from a signed source.
SignExt(a, w) == [i \in 1..w |-> IF i <= Len(a) THEN a[i] ELSE a[Len(a)]]

\* static_cast<T> of a wider value: the low w bits.
Trunc(a, w) == [i \in 1..w |-> a[i]]

\* static_cast<uint8_t>(v & 0xFF): the low byte as a number.
LowByte(a) == SumBits(a, IF Len(a) < 8 THEN Len(a) ELSE 8)


(***************************************************************************)
(* io::Reader over a std::istream: the source bytes `is`, and the stream   *)
(* state rd = [pos |-> bytes consumed, fail |-> failbit].  A result is     *)
(* [data, rd, err].                                                        *)
(***************************************************************************)
NoErr == "none"

\* Mutant: readBytes without the !is test; the bytes the stream did not supply
\* are whatever the buffer held, here zeros.
readBytes_Unchecked(is, rd, n) ==
    LET m == IF rd.fail THEN 0
             ELSE IF rd.pos + n <= Len(is) THEN n ELSE Len(is) - rd.pos
    IN  [data |-> SubSeq(is, rd.pos + 1, rd.pos + m) \o [i \in 1..(n - m) |-> 0],
         rd |-> [pos |-> rd.pos + m, fail |-> rd.fail \/ m < n], err |-> NoErr]

\* Mutant: a short read puts the bytes back and leaves the stream good.
readBytes_Rewinding(is, rd, n) ==
    IF rd.pos + n <= Len(is)
    THEN [data |-> SubSeq(is, rd.pos + 1, rd.pos + n),
          rd |-> [pos |-> rd.pos + n, fail |-> FALSE], err |-> NoErr]
    ELSE [data |-> << >>, rd |-> rd, err |-> "UnexpectedEOF"]

\* std::istream::read(data, n) then the !is test: a short read extracts every
\* remaining byte, sets failbit and throws; a read on a failed stream extracts
\* nothing and throws.
readBytes(is, rd, n) ==
    IF rd.fail
    THEN [data |-> << >>, rd |-> rd, err |-> "UnexpectedEOF"]
    ELSE IF rd.pos + n <= Len(is)
    THEN [data |-> SubSeq(is, rd.pos + 1, rd.pos + n),
          rd |-> [pos |-> rd.pos + n, fail |-> FALSE], err |-> NoErr]
    ELSE [data |-> SubSeq(is, rd.pos + 1, Len(is)),
          rd |-> [pos |-> Len(is), fail |-> TRUE], err |-> "UnexpectedEOF"]

\* readByte: [b, rd, err]; b is meaningful only when err = NoErr.
readByte(is, rd) ==
    LET r == readBytes(is, rd, 1)
    IN  [b |-> IF r.err = NoErr THEN r.data[1] ELSE 0, rd |-> r.rd, err |-> r.err]

(***************************************************************************)
(* utils::                                                                 *)
(***************************************************************************)
\* (uint64_t(x) << 1) ^ uint64_t(x >> 63), x an int64_t.
zigzag_encode(x) == BvXor(BvShl(x, 1), BvSar(x, W64 - 1))

\* Mutant: the sign mask is ~(v & 1) without the + 1.
zigzag_decode_NoNegate(v) == BvXor(BvShr(v, 1), BvNot(BvAnd(v, Bits(1, W64))))

\* int64_t((v >> 1) ^ (~(v & 1) + 1)), v a uint64_t.
zigzag_decode(v) == BvXor(BvShr(v, 1), BvInc(BvNot(BvAnd(v, Bits(1, W64)))))

\* Mutant: the loop test is v >= 0x7F, so 127 gets a continuation byte.
RECURSIVE write_uleb128_OffByOne(_)
write_uleb128_OffByOne(v) ==
    IF BvGe(v, 127)
    THEN << (LowByte(v) % 128) + 128 >> \o write_uleb128_OffByOne(BvShr(v, 7))
    ELSE << LowByte(v) >>

\* The bytes write_uleb128 hands to writeByte, in order.
RECURSIVE write_uleb128(_)
write_uleb128(v) ==
    IF BvGt(v, 127)
    THEN << (LowByte(v) % 128) + 128 >> \o write_uleb128(BvShr(v, 7))
    ELSE << LowByte(v) >>

\* Mutant: the overflow test reads shift before it is advanced, so a tenth
\* continuation byte is accepted.
RECURSIVE read_uleb128_loop_LateCheck(_, _, _, _)
read_uleb128_loop_LateCheck(is, rd, res, shift) ==
    LET r == readByte(is, rd)
    IN  IF r.err # NoErr
        THEN [val |-> res, rd |-> r.rd, err |-> r.err]
        ELSE LET res2 == BvOr(res, BvShl(Bits(r.b % 128, W64), shift))
             IN  IF r.b < 128
                 THEN [val |-> res2, rd |-> r.rd, err |-> NoErr]
                 ELSE IF shift >= W64
                 THEN [val |-> res2, rd |-> r.rd, err |-> "InvalidVarint"]
                 ELSE read_uleb128_loop_LateCheck(is, r.rd, res2, shift + 7)

\* The while(true) loop of read_uleb128 from (res, shift): [val, rd, err].
RECURSIVE read_uleb128_loop(_, _, _, _)
read_uleb128_loop(is, rd, res, shift) ==
    LET r == readByte(is, rd)
    IN  IF r.err # NoErr
        THEN [val |-> res, rd |-> r.rd, err |-> r.err]
        ELSE LET res2 == BvOr(res, BvShl(Bits(r.b % 128, W64), shift))
             IN  IF r.b < 128
                 THEN [val |-> res2, rd |-> r.rd, err |-> NoErr]
                 ELSE IF shift + 7 >= W64
                 THEN [val |-> res2, rd |-> r.rd, err |-> "InvalidVarint"]
                 ELSE read_uleb128_loop(is, r.rd, res2, shift + 7)

\* Mutant: a decoder that insists on the canonical form; a chain of several
\* bytes that ends in a zero byte, or a tenth byte with payload above bit 63,
\* is InvalidVarint.
read_uleb128_Canonical(is, rd) ==
    LET r == read_uleb128_loop(is, rd, Bits(0, W64), 0)
        n == r.rd.pos - rd.pos
    IN  IF r.err = NoErr /\ n > 1 /\ (is[r.rd.pos] = 0 \/ (n = 10 /\ is[r.rd.pos] > 1))
        THEN [r EXCEPT !.err = "InvalidVarint"]
        ELSE r

read_uleb128(is, rd) == read_uleb128_loop(is, rd, Bits(0, W64), 0)


(***************************************************************************)
(* proto:: tags and the DefaultProtocol mapping                            *)
(***************************************************************************)
Fixed(n) == [p |-> "Fixed", n |-> n]

Varint == [p |-> "Varint", n |-> 0]

Schema == [p |-> "Schema", n |-> 0]

Default == [p |-> "Default", n |-> 0]

\* No tag at the call site: bsp::write(w, v) / bsp::read(r, out).
Omitted == [p |-> "Omitted", n |-> 0]

\* DefaultProtocol_t<T>.  std::vector<uint8_t> is types::ByteArray ("bytes").
DefaultProtocol(ty) ==
    CASE ty.k \in {"bool", "uint", "int", "float", "tuple"} -> Fixed(0)
      [] ty.k \in {"string", "bytes", "vector", "map", "variant", "option"} -> Varint
      [] ty.k = "pval" -> ty.proto
      [] ty.k = "struct" -> Schema
      [] OTHER -> Default

(***************************************************************************)
(* serialize:: results.  A write yields [bytes, err]: the bytes handed to  *)
(* the Writer before the call returned or threw.  A read yields            *)
(* [out, rd, err, ev]: the target object, the stream state, the error      *)
(* thrown, and the allocation events (resize / reserve / new) in order.    *)
(***************************************************************************)
WOk(bytes) == [bytes |-> bytes, err |-> NoErr]

ROk(out, rd, ev) == [out |-> out, rd |-> rd, err |-> NoErr, ev |-> ev]

RErr(out, rd, err, ev) == [out |-> out, rd |-> rd, err |-> err, ev |-> ev]

\* An allocation event: op is "resize", "reserve" or "new", n the size asked
\* for, by what sized it: a decoded "length" or "count" prefix, or the "tag".
Ev(op, n, by) == [op |-> op, n |-> n, by |-> by]

\* Mutant: true is written as the all-ones byte.
write_bool_Fixed_AllOnes(v) == WOk(<< IF v THEN 255 ELSE 0 >>)

\* Serializer<bool, Fixed<>>::write: writeByte(v).
write_bool_Fixed(v) == WOk(<< IF v THEN 1 ELSE 0 >>)

\* Serializer<bool, Fixed<>>::read: v = r.readByte().
read_bool_Fixed(is, rd, out) ==
    LET r == readByte(is, rd)
    IN  IF r.err # NoErr THEN RErr(out, r.rd, r.err, << >>)
        ELSE ROk(r.b # 0, r.rd, << >>)

\* Mutant: the write ignores GlobalOptions::endian and always emits big-endian.
write_unsigned_Fixed_NoEndian(v, o) ==
    LET size == Len(v) \div 8
    IN  WOk([i \in 1..size |-> LowByte(BvShr(v, 8 * (size - 1 - (i - 1))))])

\* Serializer<unsigned T, Fixed<>>::write: sizeof(T) bytes in the configured order.
write_unsigned_Fixed(v, o) ==
    LET size == Len(v) \div 8
    IN  WOk([i \in 1..size |->
               IF o.endian = "little"
               THEN LowByte(BvShr(v, 8 * (i - 1)))
               ELSE LowByte(BvShr(v, 8 * (size - 1 - (i - 1))))])

\* The byte loop of Serializer<unsigned T, Fixed<>>::read from (x, i).
RECURSIVE read_unsigned_Fixed_loop(_, _, _, _, _, _)
read_unsigned_Fixed_loop(is, rd, o, out, x, i) ==
    LET size == Len(x) \div 8
    IN  IF i >= size THEN ROk(x, rd, << >>)
        ELSE LET r == readByte(is, rd)
             IN  IF r.err # NoErr THEN RErr(out, r.rd, r.err, << >>)
                 ELSE read_unsigned_Fixed_loop(is, r.rd, o, out,
                        BvOr(x, BvShl(Bits(r.b, Len(x)),
                                      IF o.endian = "little" THEN 8 * i
                                      ELSE 8 * (size - 1 - i))),
                        i + 1)

read_unsigned_Fixed(is, rd, o, out) ==
    read_unsigned_Fixed_loop(is, rd, o, out, Bits(0, Len(out)), 0)

\* Mutant: a signed integer is copied as it lies in the memory of a
\* little-endian host, as a float is.
write_signed_Fixed_HostOrder(v, o) == write_unsigned_Fixed(v, [o EXCEPT !.endian = "little"])

\* Serializer<signed T, Fixed<>>: through make_unsigned_t<T>, the same bits.
write_signed_Fixed(v, o) == write_unsigned_Fixed(v, o)

read_signed_Fixed(is, rd, o, out) == read_unsigned_Fixed(is, rd, o, out)

\* Serializer<floating T, Fixed<>>: memcpy of the object representation
\* (v is its sizeof(T) bytes in memory order); endian is not consulted.
write_float_Fixed(v) == WOk(v)

read_float_Fixed(is, rd, out) ==
    LET r == readBytes(is, rd, Len(out))
    IN  IF r.err # NoErr THEN RErr(out, r.rd, r.err, << >>)
        ELSE ROk(r.data, r.rd, << >>)

\* Serializer<unsigned T, Varint>.
write_unsigned_Varint(v) == WOk(write_uleb128(ZeroExt(v, W64)))

\* Mutant: a decoded value that does not fit the target type is refused.
read_unsigned_Varint_Checked(is, rd, out) ==
    LET r == read_uleb128(is, rd)
    IN  IF r.err # NoErr THEN RErr(out, r.rd, r.err, << >>)
        ELSE IF \E b \in (Len(out) + 1)..W64 : r.val[b] = 1
        THEN RErr(out, r.rd, "LengthOverflow", << >>)
        ELSE ROk(Trunc(r.val, Len(out)), r.rd, << >>)

read_unsigned_Varint(is, rd, out) ==
    LET r == read_uleb128(is, rd)
    IN  IF r.err # NoErr THEN RErr(out, r.rd, r.err, << >>)
        ELSE ROk(Trunc(r.val, Len(out)), r.rd, << >>)

\* Mutant: the value is widened through the unsigned type (zero-extended).
write_signed_Varint_ZeroExt(v) == WOk(write_uleb128(zigzag_encode(ZeroExt(v, W64))))

\* Serializer<signed T, Varint>: ZigZag of the value widened to int64_t.
write_signed_Varint(v) == WOk(write_uleb128(zigzag_encode(SignExt(v, W64))))

read_signed_Varint(is, rd, out) ==
    LET r == read_uleb128(is, rd)
    IN  IF r.err # NoErr THEN RErr(out, r.rd, r.err, << >>)
        ELSE ROk(Trunc(zigzag_decode(r.val), Len(out)), r.rd, << >>)

\* bool satisfies std::unsigned_integral: Serializer<bool, Varint>.
write_bool_Varint(v) == WOk(write_uleb128(Bits(IF v THEN 1 ELSE 0, W64)))

read_bool_Varint(is, rd, out) ==
    LET r == read_uleb128(is, rd)
    IN  IF r.err # NoErr THEN RErr(out, r.rd, r.err, << >>)
        ELSE ROk(BvGt(r.val, 0), r.rd, << >>)


(***************************************************************************)
(* Object construction                                                     *)
(***************************************************************************)
\* The value of a freshly constructed T.  j = 0 is value-initialisation (all
\* zero); j = 1 fills the scalars that default-initialisation (`T x;`) leaves
\* indeterminate with one bits.  std::tuple and std::variant value-initialise
\* their elements whatever the context.
RECURSIVE InitVal(_, _)
InitVal(ty, j) ==
    CASE ty.k = "bool" -> (j = 1)
      [] ty.k \in {"uint", "int"} -> [i \in 1..ty.w |-> j]
      [] ty.k = "float" -> [i \in 1..(ty.w \div 8) |-> 255 * j]
      [] ty.k \in {"string", "bytes", "vector", "map"} -> << >>
      [] ty.k = "view" -> [data |-> << >>, size |-> 0]
      [] ty.k = "tuple" -> [i \in 1..Len(ty.elems) |-> InitVal(ty.elems[i], 0)]
      [] ty.k = "option" -> [has_value |-> FALSE, value |-> InitVal(ty.elem, j)]
      [] ty.k = "variant" -> [index |-> 0, value |-> InitVal(ty.alts[1], 0)]
      [] ty.k = "struct" -> [i \in 1..Len(ty.fields) |-> InitVal(ty.fields[i].ty, j)]
      [] ty.k = "pval" -> [value |-> InitVal(ty.elem, j)]

\* std::string / std::vector<uint8_t>::resize(n): keeps the prefix, zero-fills.
Resize(s, n) == [i \in 1..n |-> IF i <= Len(s) THEN s[i] ELSE 0]

\* The buffer after a read stored `data` at its start.
Overlay(buf, data) == [i \in 1..Len(buf) |-> IF i <= Len(data) THEN data[i] ELSE buf[i]]

Zeros(n) == [i \in 1..n |-> 0]

Min(a, b) == IF a < b THEN a ELSE b

(***************************************************************************)
(* std::map<K, V>: a sequence of <<key, value>> pairs, strictly increasing *)
(* by std::less<K>.                                                        *)
(***************************************************************************)
\* a < b for two byte strings or two bit vectors (most significant last).
SeqLess(a, b) ==
    \E i \in 1..(Len(b)) :
        /\ \A j \in 1..(i - 1) : j <= Len(a) /\ a[j] = b[j]
        /\ (i > Len(a) \/ a[i] < b[i])

BvLess(a, b) ==
    \E i \in 1..Len(a) : a[i] < b[i] /\ \A j \in (i + 1)..Len(a) : a[j] = b[j]

KeyLess(kty, a, b) ==
    CASE kty.k = "uint" -> BvLess(a, b)
      [] kty.k = "int" ->
           IF a[Len(a)] # b[Len(b)] THEN a[Len(a)] = 1 ELSE BvLess(a, b)
      [] kty.k \in {"string", "bytes"} -> SeqLess(a, b)
      [] kty.k = "bool" -> (~a) /\ b

\* std::map::emplace: no effect when the key is already present.
\* insert_or_assign in place of emplace: a repeated key takes the new value.
emplace_Overwrite(m, kty, k, v) ==
    IF \E i \in 1..Len(m) : m[i][1] = k
    THEN [i \in 1..Len(m) |-> IF m[i][1] = k THEN <<k, v>> ELSE m[i]]
    ELSE LET n == Cardinality({i \in 1..Len(m) : KeyLess(kty, m[i][1], k)})
         IN  SubSeq(m, 1, n) \o << <<k, v>> >> \o SubSeq(m, n + 1, Len(m))

emplace(m, kty, k, v) ==
    IF \E i \in 1..Len(m) : m[i][1] = k THEN m
    ELSE LET n == Cardinality({i \in 1..Len(m) : KeyLess(kty, m[i][1], k)})
         IN  SubSeq(m, 1, n) \o << <<k, v>> >> \o SubSeq(m, n + 1, Len(m))


(***************************************************************************)
(* Strings, byte arrays and byte views                                     *)
(***************************************************************************)
\* Serializer<std::string, Varint>
write_string_Varint(s) == WOk(write_uleb128(Bits(Len(s), W64)) \o s)

\* A string decoder that tests the length against the container limit.
read_string_Varint_WrongLimit(is, rd, o, out) ==
    LET r == read_uleb128(is, rd)
    IN  IF r.err # NoErr THEN RErr(out, r.rd, r.err, << >>)
        ELSE IF BvGt(r.val, o.max_container_size)
        THEN RErr(out, r.rd, "LengthOverflow", << >>)
        ELSE LET len == Val(r.val)
                 buf == Resize(out, len)
                 ev  == << Ev("resize", len, "length") >>
             IN  IF len = 0 THEN ROk(buf, r.rd, ev)
                 ELSE LET b == readBytes(is, r.rd, len)
                      IN  IF b.err # NoErr
                          THEN RErr(Overlay(buf, b.data), b.rd, b.err, ev)
                          ELSE ROk(b.data, b.rd, ev)

read_string_Varint(is, rd, o, out) ==
    LET r == read_uleb128(is, rd)
    IN  IF r.err # NoErr THEN RErr(out, r.rd, r.err, << >>)
        ELSE IF BvGt(r.val, o.max_string_size)
        THEN RErr(out, r.rd, "LengthOverflow", << >>)
        ELSE LET len == Val(r.val)
                 buf == Resize(out, len)
                 ev  == << Ev("resize", len, "length") >>
             IN  IF len = 0 THEN ROk(buf, r.rd, ev)
                 ELSE LET b == readBytes(is, r.rd, len)
                      IN  IF b.err # NoErr
                          THEN RErr(Overlay(buf, b.data), b.rd, b.err, ev)
                          ELSE ROk(b.data, b.rd, ev)

\* A fixed-size string writer that leaves out the padding.
write_string_Fixed_NoPad(s, N) == WOk(SubSeq(s, 1, Min(Len(s), N)))

\* Serializer<std::string, Fixed<N>>
write_string_Fixed(s, N) ==
    LET to_write == Min(Len(s), N)
    IN  WOk(SubSeq(s, 1, to_write) \o Zeros(N - to_write))

read_string_Fixed(is, rd, out, N) ==
    LET buf == Resize(out, N)
        ev  == << Ev("resize", N, "tag") >>
    IN  IF N = 0 THEN ROk(buf, rd, ev)
        ELSE LET b == readBytes(is, rd, N)
             IN  IF b.err # NoErr
                 THEN RErr(Overlay(buf, b.data), b.rd, b.err, ev)
                 ELSE ROk(b.data, b.rd, ev)

\* Serializer<types::ByteArray, Varint>
write_ByteArray_Varint(v) == WOk(write_uleb128(Bits(Len(v), W64)) \o v)

read_ByteArray_Varint(is, rd, o, out) ==
    LET r == read_uleb128(is, rd)
    IN  IF r.err # NoErr THEN RErr(out, r.rd, r.err, << >>)
        ELSE IF BvGt(r.val, o.max_string_size)
        THEN RErr(out, r.rd, "LengthOverflow", << >>)
        ELSE LET len == Val(r.val)
                 buf == Resize(out, len)
                 ev  == << Ev("resize", len, "length") >>
             IN  IF len = 0 THEN ROk(buf, r.rd, ev)
                 ELSE LET b == readBytes(is, r.rd, len)
                      IN  IF b.err # NoErr
                          THEN RErr(Overlay(buf, b.data), b.rd, b.err, ev)
                          ELSE ROk(b.data, b.rd, ev)

\* Serializer<types::ByteArray, Fixed<N>>
write_ByteArray_Fixed(v, N) ==
    IF Len(v) # N THEN [bytes |-> << >>, err |-> "LengthOverflow"]
    ELSE WOk(v)

read_ByteArray_Fixed(is, rd, out, N) ==
    LET buf == Resize(out, N)
        ev  == << Ev("resize", N, "tag") >>
    IN  IF N = 0 THEN ROk(buf, rd, ev)
        ELSE LET b == readBytes(is, rd, N)
             IN  IF b.err # NoErr
                 THEN RErr(Overlay(buf, b.data), b.rd, b.err, ev)
                 ELSE ROk(b.data, b.rd, ev)

\* Serializer<types::ByteView, Varint>: a view is [data, size], data the bytes
\* of the buffer it points at.
write_ByteView_Varint(v) ==
    WOk(write_uleb128(Bits(v.size, W64)) \o SubSeq(v.data, 1, v.size))

\* read allocates with new[] and then reads; the view is assigned only after
\* the read returned.
read_ByteView_Varint(is, rd, o, out) ==
    LET r == read_uleb128(is, rd)
    IN  IF r.err # NoErr THEN RErr(out, r.rd, r.err, << >>)
        ELSE IF BvGt(r.val, o.max_string_size)
        THEN RErr(out, r.rd, "LengthOverflow", << >>)
        ELSE LET len == Val(r.val)
                 ev  == << Ev("new", len, "length") >>
                 b   == readBytes(is, r.rd, len)
             IN  IF b.err # NoErr THEN RErr(out, b.rd, b.err, ev)
                 ELSE ROk([data |-> b.data, size |-> len], b.rd, ev)


(***************************************************************************)
(* Composite codecs.  Serializer_write(ty, p, v, o) and                    *)
(* Serializer_read(ty, p, e, rd, out) select the specialisation            *)
(* Serializer<T, Protocol>; e = [is, o, j] is the source, the              *)
(* GlobalOptions in force and the fill of indeterminate locals.            *)
(***************************************************************************)
RECURSIVE Serializer_write(_, _, _, _)
RECURSIVE Serializer_read(_, _, _, _, _)

\* Consecutive writes of items [ty, p, v], stopping at the first throw.
RECURSIVE write_seq(_, _)
write_seq(items, o) ==
    IF items = << >> THEN WOk(<< >>)
    ELSE LET h == Serializer_write(items[1].ty, items[1].p, items[1].v, o)
         IN  IF h.err # NoErr THEN h
             ELSE LET t == write_seq(Tail(items), o)
                  IN  [bytes |-> h.bytes \o t.bytes, err |-> t.err]

\* Consecutive in-place reads into the targets of items [ty, p, out], stopping
\* at the first throw: [outs, rd, err, ev], targets not reached unchanged.
RECURSIVE read_seq(_, _, _)
read_seq(items, e, rd) ==
    IF items = << >> THEN [outs |-> << >>, rd |-> rd, err |-> NoErr, ev |-> << >>]
    ELSE LET h == Serializer_read(items[1].ty, items[1].p, e, rd, items[1].out)
         IN  IF h.err # NoErr
             THEN [outs |-> << h.out >> \o [i \in 1..(Len(items) - 1) |-> items[i + 1].out],
                   rd |-> h.rd, err |-> h.err, ev |-> h.ev]
             ELSE LET t == read_seq(Tail(items), e, h.rd)
                  IN  [outs |-> << h.out >> \o t.outs, rd |-> t.rd, err |-> t.err,
                       ev |-> h.ev \o t.ev]

\* Serializer<std::tuple<Ts...>, Fixed<>>
write_tuple_Fixed(ty, t, o) ==
    write_seq([i \in 1..Len(ty.elems) |->
                 [ty |-> ty.elems[i], p |-> DefaultProtocol(ty.elems[i]), v |-> t[i]]], o)

read_tuple_Fixed(ty, e, rd, out) ==
    LET r == read_seq([i \in 1..Len(ty.elems) |->
                 [ty |-> ty.elems[i], p |-> DefaultProtocol(ty.elems[i]), out |-> out[i]]],
                 e, rd)
    IN  [out |-> r.outs, rd |-> r.rd, err |-> r.err, ev |-> r.ev]

\* The entries of a map in iteration order, as write items: key, value, key, ...
MapItems(ty, m) ==
    [i \in 1..(2 * Len(m)) |->
        IF i % 2 = 1
        THEN [ty |-> ty.key, p |-> DefaultProtocol(ty.key), v |-> m[(i + 1) \div 2][1]]
        ELSE [ty |-> ty.val, p |-> DefaultProtocol(ty.val), v |-> m[i \div 2][2]]]

\* The read loop of both map specialisations: n more entries into acc.
RECURSIVE read_map_loop(_, _, _, _, _, _)
read_map_loop(ty, e, rd, n, acc, ev) ==
    IF n = 0 THEN ROk(acc, rd, ev)
    ELSE LET k == Serializer_read(ty.key, DefaultProtocol(ty.key), e, rd,
                                  InitVal(ty.key, e.j))
         IN  IF k.err # NoErr THEN RErr(acc, k.rd, k.err, ev \o k.ev)
             ELSE LET v == Serializer_read(ty.val, DefaultProtocol(ty.val), e, k.rd,
                                           InitVal(ty.val, e.j))
                  IN  IF v.err # NoErr THEN RErr(acc, v.rd, v.err, ev \o k.ev \o v.ev)
                      ELSE read_map_loop(ty, e, v.rd, n - 1,
                                         emplace(acc, ty.key, k.out, v.out),
                                         ev \o k.ev \o v.ev)

\* Serializer<std::map<K, V>, Varint>
write_map_Varint(ty, m, o) ==
    LET es == write_seq(MapItems(ty, m), o)
    IN  [bytes |-> write_uleb128(Bits(Len(m), W64)) \o es.bytes, err |-> es.err]

read_map_Varint(ty, e, rd, out) ==
    LET r == read_uleb128(e.is, rd)
    IN  IF r.err # NoErr THEN RErr(out, r.rd, r.err, << >>)
        ELSE IF BvGt(r.val, e.o.max_container_size)
        THEN RErr(out, r.rd, "LengthOverflow", << >>)
        ELSE read_map_loop(ty, e, r.rd, Val(r.val), << >>, << >>)

\* Serializer<std::map<K, V>, Fixed<N>>
write_map_Fixed(ty, m, o, N) ==
    IF Len(m) # N THEN [bytes |-> << >>, err |-> "LengthOverflow"]
    ELSE write_seq(MapItems(ty, m), o)

\* Mutant: the read without out.clear(); the entries decoded join those the
\* target held.
read_map_Fixed_NoClear(ty, e, rd, out, N) == read_map_loop(ty, e, rd, N, out, << >>)

\* out.clear(), then N entries are read and emplaced.
read_map_Fixed(ty, e, rd, out, N) == read_map_loop(ty, e, rd, N, << >>, << >>)

\* The read loop of Serializer<std::vector<Elem>, Varint>: n more elements,
\* each read into a local and pushed back.
RECURSIVE read_vector_loop(_, _, _, _, _, _)
read_vector_loop(ty, e, rd, n, acc, ev) ==
    IF n = 0 THEN ROk(acc, rd, ev)
    ELSE LET h == Serializer_read(ty.elem, DefaultProtocol(ty.elem), e, rd,
                                  InitVal(ty.elem, e.j))
         IN  IF h.err # NoErr THEN RErr(acc, h.rd, h.err, ev \o h.ev)
             ELSE read_vector_loop(ty, e, h.rd, n - 1, Append(acc, h.out), ev \o h.ev)

\* A sequence writer that hands its own tag down to the elements.
write_vector_Varint_Propagate(ty, vec, o) ==
    LET es == write_seq([i \in 1..Len(vec) |->
                 [ty |-> ty.elem, p |-> Varint, v |-> vec[i]]], o)
    IN  [bytes |-> write_uleb128(Bits(Len(vec), W64)) \o es.bytes, err |-> es.err]

\* Serializer<std::vector<Elem>, Varint>
write_vector_Varint(ty, vec, o) ==
    LET es == write_seq([i \in 1..Len(vec) |->
                 [ty |-> ty.elem, p |-> DefaultProtocol(ty.elem), v |-> vec[i]]], o)
    IN  [bytes |-> write_uleb128(Bits(Len(vec), W64)) \o es.bytes, err |-> es.err]

\* Mutant: out.clear() runs before the count is tested.
read_vector_Varint_ClearFirst(ty, e, rd, out) ==
    LET r == read_uleb128(e.is, rd)
    IN  IF r.err # NoErr THEN RErr(out, r.rd, r.err, << >>)
        ELSE IF BvGt(r.val, e.o.max_container_size)
        THEN RErr(<< >>, r.rd, "LengthOverflow", << >>)
        ELSE read_vector_loop(ty, e, r.rd, Val(r.val), << >>,
                              << Ev("reserve", Val(r.val), "count") >>)

read_vector_Varint(ty, e, rd, out) ==
    LET r == read_uleb128(e.is, rd)
    IN  IF r.err # NoErr THEN RErr(out, r.rd, r.err, << >>)
        ELSE IF BvGt(r.val, e.o.max_container_size)
        THEN RErr(out, r.rd, "LengthOverflow", << >>)
        ELSE read_vector_loop(ty, e, r.rd, Val(r.val), << >>,
                              << Ev("reserve", Val(r.val), "count") >>)

\* A fixed-size sequence writer without the size test.
write_vector_Fixed_NoCheck(ty, vec, o, N) ==
    write_seq([i \in 1..Len(vec) |->
                 [ty |-> ty.elem, p |-> DefaultProtocol(ty.elem), v |-> vec[i]]], o)

\* Serializer<std::vector<Elem>, Fixed<N>>
write_vector_Fixed(ty, vec, o, N) ==
    IF Len(vec) # N THEN [bytes |-> << >>, err |-> "LengthOverflow"]
    ELSE write_seq([i \in 1..Len(vec) |->
                 [ty |-> ty.elem, p |-> DefaultProtocol(ty.elem), v |-> vec[i]]], o)

\* clear(), resize(N) value-initialises, then each element is read in place.
read_vector_Fixed(ty, e, rd, out, N) ==
    LET r == read_seq([i \in 1..N |->
                 [ty |-> ty.elem, p |-> DefaultProtocol(ty.elem),
                  out |-> InitVal(ty.elem, 0)]], e, rd)
    IN  [out |-> r.outs, rd |-> r.rd, err |-> r.err,
         ev |-> << Ev("resize", N, "tag") >> \o r.ev]

\* A record writer that encodes every field under its type's default tag.
write_Schema_IgnoreTag(ty, obj, o) ==
    write_seq([i \in 1..Len(ty.fields) |->
                 [ty |-> ty.fields[i].ty, p |-> DefaultProtocol(ty.fields[i].ty),
                  v |-> obj[i]]], o)

\* A record writer that puts the field count in front.
write_Schema_WithCount(ty, obj, o) ==
    LET r == write_seq([i \in 1..Len(ty.fields) |->
                 [ty |-> ty.fields[i].ty, p |-> ty.fields[i].p, v |-> obj[i]]], o)
    IN  [bytes |-> << Len(ty.fields) >> \o r.bytes, err |-> r.err]

\* Serializer<T, Schema>: the fields of Schema<T>::fields() in order, each
\* under the protocol_type of its Field.
write_Schema(ty, obj, o) ==
    write_seq([i \in 1..Len(ty.fields) |->
                 [ty |-> ty.fields[i].ty, p |-> ty.fields[i].p, v |-> obj[i]]], o)

\* A record reader that visits the fields last to first.
read_Schema_Reversed(ty, e, rd, out) ==
    LET N == Len(ty.fields)
        r == read_seq([i \in 1..N |->
                 [ty |-> ty.fields[N + 1 - i].ty, p |-> ty.fields[N + 1 - i].p,
                  out |-> out[N + 1 - i]]], e, rd)
    IN  [out |-> [i \in 1..N |-> r.outs[N + 1 - i]], rd |-> r.rd, err |-> r.err,
         ev |-> r.ev]

read_Schema(ty, e, rd, out) ==
    LET r == read_seq([i \in 1..Len(ty.fields) |->
                 [ty |-> ty.fields[i].ty, p |-> ty.fields[i].p, out |-> out[i]]], e, rd)
    IN  [out |-> r.outs, rd |-> r.rd, err |-> r.err, ev |-> r.ev]

\* Serializer<T, Default>: forwards to DefaultProtocol_t<T>.
write_Default(ty, v, o) == Serializer_write(ty, DefaultProtocol(ty), v, o)

read_Default(ty, e, rd, out) == Serializer_read(ty, DefaultProtocol(ty), e, rd, out)

\* A value-box writer that encodes the inner value under its type's default.
write_PVal_Unboxed(ty, p, v, o) ==
    Serializer_write(ty.elem, DefaultProtocol(ty.elem), v.value, o)

\* Serializer<PVal<T, ProtocolT>, Protocol>: the inner value under Protocol.
write_PVal(ty, p, v, o) == Serializer_write(ty.elem, p, v.value, o)

read_PVal(ty, p, e, rd, out) ==
    LET h == Serializer_read(ty.elem, p, e, rd, out.value)
    IN  [out |-> [value |-> h.out], rd |-> h.rd, err |-> h.err, ev |-> h.ev]

\* Serializer<Option<T>, Varint>
write_Option_Varint(ty, opt, o) ==
    LET flag == write_uleb128(Bits(IF opt.has_value THEN 1 ELSE 0, W64))
    IN  IF opt.has_value
        THEN LET h == Serializer_write(ty.elem, DefaultProtocol(ty.elem), opt.value, o)
             IN  [bytes |-> flag \o h.bytes, err |-> h.err]
        ELSE WOk(flag)

read_Option_Varint(ty, e, rd, out) ==
    LET r == read_uleb128(e.is, rd)
    IN  IF r.err # NoErr THEN RErr(out, r.rd, r.err, << >>)
        ELSE IF ~BvGt(r.val, 0)
        THEN ROk([has_value |-> FALSE, value |-> out.value], r.rd, << >>)
        ELSE LET h == Serializer_read(ty.elem, DefaultProtocol(ty.elem), e, r.rd,
                                      out.value)
             IN  [out |-> [has_value |-> TRUE, value |-> h.out], rd |-> h.rd,
                  err |-> h.err, ev |-> h.ev]

\* Serializer<std::variant<Ts...>, Varint>: a variant is [index, value],
\* index zero-based.
write_variant_Varint(ty, v, o) ==
    LET h == Serializer_write(ty.alts[v.index + 1], DefaultProtocol(ty.alts[v.index + 1]),
                              v.value, o)
    IN  [bytes |-> write_uleb128(Bits(v.index, W64)) \o h.bytes, err |-> h.err]

\* A union decoder whose alternative counter is incremented before the test.
read_variant_Varint_PreIncrement(ty, e, rd, out) ==
    LET r == read_uleb128(e.is, rd)
    IN  IF r.err # NoErr THEN RErr(out, r.rd, r.err, << >>)
        ELSE IF BvGe(r.val, Len(ty.alts))
        THEN RErr(out, r.rd, "VariantOutOfRange", << >>)
        ELSE IF Val(r.val) = 0 THEN RErr(out, r.rd, "VariantOutOfRange", << >>)
        ELSE LET T == ty.alts[Val(r.val)]
                 h == Serializer_read(T, DefaultProtocol(T), e, r.rd, InitVal(T, e.j))
             IN  IF h.err # NoErr THEN RErr(out, h.rd, h.err, h.ev)
                 ELSE ROk([index |-> Val(r.val) - 1, value |-> h.out], h.rd, h.ev)

read_variant_Varint(ty, e, rd, out) ==
    LET r == read_uleb128(e.is, rd)
    IN  IF r.err # NoErr THEN RErr(out, r.rd, r.err, << >>)
        ELSE IF BvGe(r.val, Len(ty.alts))
        THEN RErr(out, r.rd, "VariantOutOfRange", << >>)
        ELSE LET T == ty.alts[Val(r.val) + 1]
                 h == Serializer_read(T, DefaultProtocol(T), e, r.rd, InitVal(T, e.j))
             IN  IF h.err # NoErr THEN RErr(out, h.rd, h.err, h.ev)
                 ELSE ROk([index |-> Val(r.val), value |-> h.out], h.rd, h.ev)

\* Selection of Serializer<T, Protocol>::write.
Serializer_write(ty, p, v, o) ==
    CASE ty.k = "pval" /\ p.p \in {"Fixed", "Varint"} -> write_PVal(ty, p, v, o)
      [] ty.k # "pval" /\ p.p = "Default" -> write_Default(ty, v, o)
      [] ty.k = "struct" /\ p.p = "Schema" -> write_Schema(ty, v, o)
      [] ty.k = "bool" /\ p = Fixed(0) -> write_bool_Fixed(v)
      [] ty.k = "bool" /\ p = Varint -> write_bool_Varint(v)
      [] ty.k = "uint" /\ p = Fixed(0) -> write_unsigned_Fixed(v, o)
      [] ty.k = "int" /\ p = Fixed(0) -> write_signed_Fixed(v, o)
      [] ty.k = "float" /\ p = Fixed(0) -> write_float_Fixed(v)
      [] ty.k = "uint" /\ p = Varint -> write_unsigned_Varint(v)
      [] ty.k = "int" /\ p = Varint -> write_signed_Varint(v)
      [] ty.k = "string" /\ p = Varint -> write_string_Varint(v)
      [] ty.k = "string" /\ p.p = "Fixed" -> write_string_Fixed(v, p.n)
      [] ty.k = "bytes" /\ p = Varint -> write_ByteArray_Varint(v)
      [] ty.k = "bytes" /\ p.p = "Fixed" -> write_ByteArray_Fixed(v, p.n)
      [] ty.k = "view" /\ p = Varint -> write_ByteView_Varint(v)
      [] ty.k = "tuple" /\ p = Fixed(0) -> write_tuple_Fixed(ty, v, o)
      [] ty.k = "map" /\ p = Varint -> write_map_Varint(ty, v, o)
      [] ty.k = "map" /\ p.p = "Fixed" -> write_map_Fixed(ty, v, o, p.n)
      [] ty.k = "vector" /\ p = Varint -> write_vector_Varint(ty, v, o)
      [] ty.k = "vector" /\ p.p = "Fixed" -> write_vector_Fixed(ty, v, o, p.n)
      [] ty.k = "option" /\ p = Varint -> write_Option_Varint(ty, v, o)
      [] ty.k = "variant" /\ p = Varint -> write_variant_Varint(ty, v, o)

\* Selection of Serializer<T, Protocol>::read.
Serializer_read(ty, p, e, rd, out) ==
    CASE ty.k = "pval" /\ p.p \in {"Fixed", "Varint"} -> read_PVal(ty, p, e, rd, out)
      [] ty.k # "pval" /\ p.p = "Default" -> read_Default(ty, e, rd, out)
      [] ty.k = "struct" /\ p.p = "Schema" -> read_Schema(ty, e, rd, out)
      [] ty.k = "bool" /\ p = Fixed(0) -> read_bool_Fixed(e.is, rd, out)
      [] ty.k = "bool" /\ p = Varint -> read_bool_Varint(e.is, rd, out)
      [] ty.k = "uint" /\ p = Fixed(0) -> read_unsigned_Fixed(e.is, rd, e.o, out)
      [] ty.k = "int" /\ p = Fixed(0) -> read_signed_Fixed(e.is, rd, e.o, out)
      [] ty.k = "float" /\ p = Fixed(0) -> read_float_Fixed(e.is, rd, out)
      [] ty.k = "uint" /\ p = Varint -> read_unsigned_Varint(e.is, rd, out)
      [] ty.k = "int" /\ p = Varint -> read_signed_Varint(e.is, rd, out)
      [] ty.k = "string" /\ p = Varint -> read_string_Varint(e.is, rd, e.o, out)
      [] ty.k = "string" /\ p.p = "Fixed" -> read_string_Fixed(e.is, rd, out, p.n)
      [] ty.k = "bytes" /\ p = Varint -> read_ByteArray_Varint(e.is, rd, e.o, out)
      [] ty.k = "bytes" /\ p.p = "Fixed" -> read_ByteArray_Fixed(e.is, rd, out, p.n)
      [] ty.k = "view" /\ p = Varint -> read_ByteView_Varint(e.is, rd, e.o, out)
      [] ty.k = "tuple" /\ p = Fixed(0) -> read_tuple_Fixed(ty, e, rd, out)
      [] ty.k = "map" /\ p = Varint -> read_map_Varint(ty, e, rd, out)
      [] ty.k = "map" /\ p.p = "Fixed" -> read_map_Fixed(ty, e, rd, out, p.n)
      [] ty.k = "vector" /\ p = Varint -> read_vector_Varint(ty, e, rd, out)
      [] ty.k = "vector" /\ p.p = "Fixed" -> read_vector_Fixed(ty, e, rd, out, p.n)
      [] ty.k = "option" /\ p = Varint -> read_Option_Varint(ty, e, rd, out)
      [] ty.k = "variant" /\ p = Varint -> read_variant_Varint(ty, e, rd, out)


(***************************************************************************)
(* The program state: GlobalOptions::instance(), and one I/O session over  *)
(* a byte stream: a Writer on a std::ostringstream while mode = "w", then   *)
(* a Reader on a std::istringstream over the same bytes (or over foreign   *)
(* bytes) while mode = "r".                                                *)
(***************************************************************************)
\* bsp::write that lets a type's default protocol win over the tag given at
\* the call site.
bsp_write_IgnoreTag(ty, p, v, o) ==
    Serializer_write(ty, IF DefaultProtocol(ty) = Default THEN p ELSE DefaultProtocol(ty),
                     v, o)

\* bsp::write<Protocol>(w, v) and bsp::write(w, v)
bsp_write(ty, p, v, o) ==
    Serializer_write(ty, IF p = Omitted THEN DefaultProtocol(ty) ELSE p, v, o)

\* bsp::read<Protocol>(r, out) and bsp::read(r, out)
bsp_read(ty, p, e, rd, out) ==
    Serializer_read(ty, IF p = Omitted THEN DefaultProtocol(ty) ELSE p, e, rd, out)

VARIABLES
    opt,     \* GlobalOptions::instance()
    mode,    \* "w": a Writer is open on buf; "r": a Reader is open on buf
    buf,     \* the bytes of the stream
    log,     \* the write calls that produced buf, in order
    rd,      \* the Reader's stream state [pos, fail]
    lastR    \* the last read call on this Reader

vars == << opt, mode, buf, log, rd, lastR >>

\* GlobalOptions defaults.
default_max_depth == 64

default_max_container_size == 1048576

default_max_string_size == 1048576

\* The small limit a caller may configure instead of the default.
SmallMax == 2

\* Back-to-back writes are modelled while the stream holds at most MaxStream
\* bytes and MaxWrites calls; a first write is never refused.
MaxStream == 4

MaxWrites == 2

DefaultOptions ==
    [endian |-> "big", max_depth |-> default_max_depth,
     max_container_size |-> default_max_container_size,
     max_string_size |-> default_max_string_size,
     strict_eof |-> FALSE, error_policy |-> "STRICT"]

FreshReader == [pos |-> 0, fail |-> FALSE]

NoRead == [op |-> "none"]

Init ==
    /\ opt = DefaultOptions
    /\ mode = "w"
    /\ buf = << >>
    /\ log = << >>
    /\ rd = FreshReader
    /\ lastR = NoRead

\* GlobalOptions::instance().endian = e
SetEndian(e) ==
    /\ opt' = [opt EXCEPT !.endian = e]
    /\ UNCHANGED << mode, buf, log, rd, lastR >>

\* GlobalOptions::instance().max_string_size = n
SetMaxStringSize(n) ==
    /\ opt' = [opt EXCEPT !.max_string_size = n]
    /\ UNCHANGED << mode, buf, log, rd, lastR >>

\* GlobalOptions::instance().max_container_size = n
SetMaxContainerSize(n) ==
    /\ opt' = [opt EXCEPT !.max_container_size = n]
    /\ UNCHANGED << mode, buf, log, rd, lastR >>

\* GlobalOptions::instance().error_policy = p
SetErrorPolicy(p) ==
    /\ opt' = [opt EXCEPT !.error_policy = p]
    /\ UNCHANGED << mode, buf, log, rd, lastR >>

\* GlobalOptions::instance().strict_eof = b
SetStrictEof(b) ==
    /\ opt' = [opt EXCEPT !.strict_eof = b]
    /\ UNCHANGED << mode, buf, log, rd, lastR >>

\* GlobalOptions::instance().max_depth = n
SetMaxDepth(n) ==
    /\ opt' = [opt EXCEPT !.max_depth = n]
    /\ UNCHANGED << mode, buf, log, rd, lastR >>

\* std::ostringstream os; io::Writer w(os);
NewSession ==
    /\ mode' = "w"
    /\ buf' = << >>
    /\ log' = << >>
    /\ rd' = FreshReader
    /\ lastR' = NoRead
    /\ UNCHANGED opt

\* Mutant: every value on the stream is followed by a zero byte.
Write_Delimited(ty, p, v) ==
    /\ mode = "w"
    /\ Len(log) < MaxWrites
    /\ LET r == bsp_write(ty, p, v, opt)
       IN  /\ IF log = << >> THEN TRUE ELSE Len(buf) + Len(r.bytes) <= MaxStream
           /\ buf' = buf \o r.bytes \o << 0 >>
           /\ log' = Append(log, [ty |-> ty, p |-> p, v |-> v, at |-> Len(buf),
                                  bytes |-> r.bytes, err |-> r.err, o |-> opt])
    /\ UNCHANGED << opt, mode, rd, lastR >>

\* bsp::write<P>(w, v): the bytes go to the stream whether or not the call
\* throws part-way.
Write(ty, p, v) ==
    /\ mode = "w"
    /\ Len(log) < MaxWrites
    /\ LET r == bsp_write(ty, p, v, opt)
       IN  /\ IF log = << >> THEN TRUE ELSE Len(buf) + Len(r.bytes) <= MaxStream
           /\ buf' = buf \o r.bytes
           /\ log' = Append(log, [ty |-> ty, p |-> p, v |-> v, at |-> Len(buf),
                                  bytes |-> r.bytes, err |-> r.err, o |-> opt])
    /\ UNCHANGED << opt, mode, rd, lastR >>

\* std::istringstream is(os.str()); io::Reader r(is);
Open ==
    /\ mode = "w"
    /\ mode' = "r"
    /\ rd' = FreshReader
    /\ lastR' = NoRead
    /\ UNCHANGED << opt, buf, log >>

\* std::istringstream is(bytes); io::Reader r(is); for bytes of any origin,
\* in place of a session's Writer.
Feed(bytes) ==
    /\ mode = "w" /\ log = << >>
    /\ mode' = "r"
    /\ buf' = bytes
    /\ log' = << >>
    /\ rd' = FreshReader
    /\ lastR' = NoRead
    /\ UNCHANGED opt

\* Mutant: the codecs of a session work on the GlobalOptions captured at the
\* session's first write call.
Read_Snapshot(ty, p, out0, j) ==
    /\ mode = "r"
    /\ LET r == bsp_read(ty, p, [is |-> buf, j |-> j,
                                 o |-> IF log = << >> THEN opt ELSE log[1].o],
                         rd, out0)
       IN  /\ rd' = r.rd
           /\ lastR' = [op |-> "read", ty |-> ty, p |-> p, out0 |-> out0,
                        out |-> r.out, err |-> r.err, rd0 |-> rd, ev |-> r.ev,
                        o |-> opt]
    /\ UNCHANGED << opt, mode, buf, log >>

\* Mutant: under ErrorPolicy IGNORE the exception of the codec is swallowed.
Read_Tolerant(ty, p, out0, j) ==
    /\ mode = "r"
    /\ LET r == bsp_read(ty, p, [is |-> buf, o |-> opt, j |-> j], rd, out0)
       IN  /\ rd' = r.rd
           /\ lastR' = [op |-> "read", ty |-> ty, p |-> p, out0 |-> out0,
                        out |-> r.out, rd0 |-> rd, ev |-> r.ev, o |-> opt,
                        err |-> IF opt.error_policy = "IGNORE" THEN NoErr ELSE r.err]
    /\ UNCHANGED << opt, mode, buf, log >>

\* bsp::read<P>(r, out) into a target holding out0; j fills the locals the
\* codec leaves indeterminate.
Read(ty, p, out0, j) ==
    /\ mode = "r"
    /\ LET r == bsp_read(ty, p, [is |-> buf, o |-> opt, j |-> j], rd, out0)
       IN  /\ rd' = r.rd
           /\ lastR' = [op |-> "read", ty |-> ty, p |-> p, out0 |-> out0,
                        out |-> r.out, err |-> r.err, rd0 |-> rd, ev |-> r.ev,
                        o |-> opt]
    /\ UNCHANGED << opt, mode, buf, log >>


(***************************************************************************)
(* Types and sample values                                                 *)
(***************************************************************************)
Bool == [k |-> "bool"]

UInt(w) == [k |-> "uint", w |-> w]

SInt(w) == [k |-> "int", w |-> w]

Float(w) == [k |-> "float", w |-> w]

Str == [k |-> "string"]

ByteArray == [k |-> "bytes"]

ByteView == [k |-> "view"]

Vector(T) == [k |-> "vector", elem |-> T]

Map(K, V) == [k |-> "map", key |-> K, val |-> V]

Tuple(Ts) == [k |-> "tuple", elems |-> Ts]

Option(T) == [k |-> "option", elem |-> T]

Variant(Ts) == [k |-> "variant", alts |-> Ts]

Struct(fields) == [k |-> "struct", fields |-> fields]

PVal(T, P) == [k |-> "pval", elem |-> T, proto |-> P]

\* BSP_FIELD(TYPE, MEMBER)
BSP_FIELD(name, T) == [name |-> name, ty |-> T, p |-> DefaultProtocol(T)]

\* BSP_FIELD_WITH(TYPE, MEMBER, PROTO)
BSP_FIELD_WITH(name, T, P) == [name |-> name, ty |-> T, p |-> P]

Endians == {"big", "little"}

Widths == {8, 16, 32, 64}

\* 2^k - 1 and 2^k at width w.
LowOnes(k, w) == [i \in 1..w |-> IF i <= k THEN 1 ELSE 0]

OneBit(k, w) == [i \in 1..w |-> IF i = k + 1 THEN 1 ELSE 0]

\* Bit patterns around every 7-bit and every byte boundary, with 0, 1, 300
\* (mod 2^w), -2, the all-ones pattern and the sign bit.
IntSamples(w) ==
    {LowOnes(k, w) : k \in {n \in 0..w : n % 7 = 0 \/ n \in {1, 8, w - 1, w}}}
    \cup {OneBit(k, w) : k \in {n \in 0..(w - 1) : n % 7 = 0 \/ n = w - 1}}
    \cup {Bits(300, w), BvNot(Bits(1, w))}

\* Object representations of a few floats (3.14f, a NaN, 0.0, ...).
FloatSamples(w) ==
    IF w = 32 THEN {<<0, 0, 0, 0>>, <<195, 245, 72, 64>>, <<0, 0, 192, 127>>, <<1, 2, 3, 4>>}
    ELSE {<<0, 0, 0, 0, 0, 0, 0, 0>>, <<1, 2, 3, 4, 5, 6, 7, 8>>,
          <<0, 0, 0, 0, 0, 0, 248, 127>>}

\* The integer and floating-point codecs.
IntCodecs ==
    {[ty |-> T, p |-> P] : T \in {UInt(w) : w \in Widths} \cup {SInt(w) : w \in Widths},
                           P \in {Fixed(0), Varint}}
    \cup {[ty |-> Float(w), p |-> Fixed(0)] : w \in {32, 64}}

IntValues(ty) == IF ty.k = "float" THEN FloatSamples(ty.w) ELSE IntSamples(ty.w)

\* Varint chains: n bytes with the continuation bit set, each c, then an
\* optional terminating byte t (t = 256: none).
MaxChain == 11

Chain(n, c, t) == [i \in 1..n |-> c] \o (IF t = 256 THEN << >> ELSE << t >>)

VarintChains ==
    {Chain(n, c, t) : n \in 0..MaxChain, c \in {128, 255}, t \in {0, 1, 2, 127, 256}}

(***************************************************************************)
(* SpecInt: a client that encodes and decodes single integers and floats   *)
(* under either byte order, and decodes foreign varint chains.             *)
(***************************************************************************)
NextInt ==
    \/ \E e \in Endians : SetEndian(e)
    \/ NewSession
    \/ Open
    \/ \E c \in IntCodecs : \E v \in IntValues(c.ty) : log = << >> /\ Write(c.ty, c.p, v)
    \/ \E b \in VarintChains : Feed(b)
    \/ \E c \in IntCodecs : \E j \in {0} :
          /\ lastR = NoRead
          /\ IF log = << >> THEN TRUE ELSE c.ty = log[1].ty /\ c.p = log[1].p
          /\ Read(c.ty, c.p, InitVal(c.ty, j), j)

SpecInt == Init /\ [][NextInt]_vars


(***************************************************************************)
(* Spec: a client that configures GlobalOptions, encodes one value of any  *)
(* supported type and decodes it back, or decodes foreign bytes.           *)
(***************************************************************************)
Triple == Vector(UInt(16))

Names == Vector(Str)

IntVec == Vector(SInt(32))

U8Map == Map(UInt(8), UInt(8))

Pair == Tuple(<< UInt(8), Str >>)

OptU16 == Option(UInt(16))

IntOrStr == Variant(<< UInt(8), Str >>)

\* A registered struct in the style of the Scene example: two fields under
\* their default protocol, two with an overriding tag.
Scene ==
    Struct(<< BSP_FIELD("id", UInt(8)),
              BSP_FIELD_WITH("fixedPair", Vector(SInt(16)), Fixed(2)),
              BSP_FIELD("name", Str),
              BSP_FIELD_WITH("code", Str, Fixed(2)) >>)

\* The Point record of the examples, the same two fields registered in the
\* other order (another version of the program), and a record holding a record.
Point == Struct(<< BSP_FIELD("x", UInt(8)), BSP_FIELD("y", UInt(16)) >>)

PointYX == Struct(<< BSP_FIELD("y", UInt(16)), BSP_FIELD("x", UInt(8)) >>)

Stage == Struct(<< BSP_FIELD("id", UInt(8)), BSP_FIELD("origin", Point) >>)

\* The other registration of a record's fields, if the client has one.
Reregistered(ty) == IF ty = Point THEN PointYX ELSE IF ty = PointYX THEN Point ELSE ty

\* The nested value boxes of the PVal example.
Layer3 == PVal(SInt(32), Varint)

Layer2 == PVal(Vector(Layer3), Fixed(2))

Layer1 == PVal(Vector(Layer2), Varint)

\* The (type, tag) pairs the client uses; each has a Serializer.
Codecs ==
    {[ty |-> Bool, p |-> Fixed(0)],
     [ty |-> UInt(16), p |-> Fixed(0)],
     [ty |-> SInt(32), p |-> Varint],
     [ty |-> Float(32), p |-> Fixed(0)],
     [ty |-> Str, p |-> Varint],
     [ty |-> Str, p |-> Fixed(2)],
     [ty |-> Str, p |-> Fixed(4)],
     [ty |-> Str, p |-> Default],
     [ty |-> ByteArray, p |-> Varint],
     [ty |-> ByteArray, p |-> Fixed(2)],
     [ty |-> ByteView, p |-> Varint],
     [ty |-> Triple, p |-> Varint],
     [ty |-> Triple, p |-> Fixed(3)],
     [ty |-> Names, p |-> Varint],
     [ty |-> Names, p |-> Fixed(2)],
     [ty |-> IntVec, p |-> Varint],
     [ty |-> U8Map, p |-> Varint],
     [ty |-> U8Map, p |-> Fixed(2)],
     [ty |-> Pair, p |-> Fixed(0)],
     [ty |-> OptU16, p |-> Varint],
     [ty |-> IntOrStr, p |-> Varint],
     [ty |-> Scene, p |-> Schema],
     [ty |-> Point, p |-> Schema],
     [ty |-> PointYX, p |-> Schema],
     [ty |-> Stage, p |-> Schema],
     [ty |-> Layer2, p |-> Fixed(2)],
     [ty |-> Layer2, p |-> Varint],
     [ty |-> Layer2, p |-> Omitted],
     [ty |-> Layer1, p |-> Omitted],
     [ty |-> Str, p |-> Omitted],
     [ty |-> SInt(32), p |-> Omitted],
     [ty |-> Triple, p |-> Omitted],
     [ty |-> Scene, p |-> Omitted]}

\* "hi", "abc", "ok"
Hi == << 104, 105 >>

Abc == << 97, 98, 99 >>

Ok == << 111, 107 >>

Values(ty) ==
    CASE ty = Bool -> {TRUE, FALSE}
      [] ty = UInt(16) -> {Bits(0, 16), Bits(258, 16), LowOnes(16, 16)}
      [] ty = SInt(32) -> {Bits(0, 32), LowOnes(32, 32), Bits(300, 32)}
      [] ty = Float(32) -> {<<0, 0, 0, 0>>, <<195, 245, 72, 64>>}
      [] ty = Str -> {<< >>, Hi, Abc}
      [] ty = ByteArray -> {<< >>, <<1, 2>>, <<0, 255, 7>>}
      [] ty = ByteView -> {[data |-> << >>, size |-> 0], [data |-> <<9, 8>>, size |-> 2],
                           [data |-> <<1, 2, 3>>, size |-> 3]}
      [] ty = Triple -> {<< >>, <<Bits(258, 16), Bits(1, 16)>>,
                         <<Bits(1, 16), Bits(2, 16), Bits(3, 16)>>}
      [] ty = Names -> {<< >>, <<Hi, << >> >>, <<Abc>>, << <<120>>, <<121>>, <<122>> >>}
      [] ty = IntVec -> {<< >>, <<Bits(300, 32)>>, <<Bits(1, 32), LowOnes(32, 32)>>}
      [] ty = U8Map -> {<< >>, << <<Bits(1, 8), Bits(5, 8)>> >>,
                        << <<Bits(1, 8), Bits(5, 8)>>, <<Bits(2, 8), Bits(6, 8)>> >>,
                        << <<Bits(1, 8), Bits(1, 8)>>, <<Bits(2, 8), Bits(2, 8)>>,
                           <<Bits(3, 8), Bits(3, 8)>> >>}
      [] ty = Pair -> {<<Bits(7, 8), Hi>>, <<Bits(0, 8), << >> >>}
      [] ty = OptU16 -> {[has_value |-> FALSE, value |-> Bits(0, 16)],
                         [has_value |-> FALSE, value |-> Bits(258, 16)],
                         [has_value |-> TRUE, value |-> Bits(258, 16)]}
      [] ty = IntOrStr -> {[index |-> 0, value |-> Bits(7, 8)], [index |-> 1, value |-> Hi],
                           [index |-> 1, value |-> Abc]}
      [] ty = Scene -> {<<Bits(1, 8), <<LowOnes(16, 16), Bits(2, 16)>>, Hi, Ok>>,
                        <<Bits(2, 8), <<Bits(3, 16)>>, << >>, Ok>>,
                        <<Bits(3, 8), <<Bits(0, 16), Bits(0, 16)>>, Abc, <<120>> >>}
      [] ty = Point -> {<<Bits(0, 8), Bits(0, 16)>>, <<Bits(1, 8), Bits(515, 16)>>,
                        <<Bits(1, 8), Bits(257, 16)>>}
      [] ty = PointYX -> {<<Bits(0, 16), Bits(0, 8)>>, <<Bits(515, 16), Bits(1, 8)>>,
                          <<Bits(257, 16), Bits(1, 8)>>}
      [] ty = Stage -> {<<Bits(0, 8), <<Bits(0, 8), Bits(0, 16)>> >>,
                        <<Bits(7, 8), <<Bits(1, 8), Bits(515, 16)>> >>}
      [] ty = Layer2 -> {[value |-> << [value |-> Bits(1, 32)], [value |-> BvNot(Bits(1, 32))] >>],
                         [value |-> << [value |-> Bits(3, 32)] >>]}
      [] ty = Layer1 ->
            {[value |-> << >>],
             [value |-> << [value |-> << [value |-> Bits(1, 32)],
                                         [value |-> BvNot(Bits(1, 32))] >>] >>],
             [value |-> << [value |-> << [value |-> Bits(1, 32)],
                                         [value |-> BvNot(Bits(1, 32))] >>],
                           [value |-> << [value |-> Bits(3, 32)] >>] >>]}

\* What the caller's target object may hold before a read: a freshly
\* value-initialised object, or an earlier value.
Targets(ty) == {InitVal(ty, 0), CHOOSE v \in Values(ty) : v # InitVal(ty, 0)}

StringLimits == {SmallMax, default_max_string_size}

ContainerLimits == {SmallMax, default_max_container_size}

\* A one-byte prefix n followed by m bytes.
LenPrefixed(n, m) == << n >> \o [i \in 1..m |-> 96 + i]

\* Foreign streams: length-prefixed payloads up to one more than the small
\* limit, complete or one byte short; prefixes beyond the default limits;
\* an over-long varint; maps with repeated and with unsorted keys; variant
\* discriminants in and out of range.
Feeds ==
    {LenPrefixed(n, m) : n \in 0..(SmallMax + 1), m \in 0..(SmallMax + 1)}
    \cup {<<129, 128, 64>>, <<129, 128, 64, 1, 2>>, <<255, 255, 255, 255, 15>>,
          Chain(10, 128, 0),
          <<1, 5, 1, 6>>, <<2, 1, 5, 1, 6>>, <<2, 2, 6, 1, 5>>, <<1, 5, 2, 6>>,
          <<3, 0, 1, 0, 2, 0, 3>>, <<2, 0, 1, 0, 2>>,
          <<2>>, <<2, 7>>, <<1, 2, 104, 105>>, <<0, 7>>, <<128, 0, 7>>, <<4, 1>>,
          <<1, 0, 0, 1, 44>>}

\* The client changes the configuration before it writes, or before it reads.
MayConfigure == IF mode = "w" THEN log = << >> ELSE lastR = NoRead

Next ==
    \/ \E e \in Endians : MayConfigure /\ SetEndian(e)
    \/ \E n \in StringLimits : MayConfigure /\ SetMaxStringSize(n)
    \/ \E n \in ContainerLimits : MayConfigure /\ SetMaxContainerSize(n)
    \/ NewSession
    \/ Open
    \/ \E c \in Codecs : \E v \in Values(c.ty) : log = << >> /\ Write(c.ty, c.p, v)
    \/ \E b \in Feeds : Feed(b)
    \/ \E c \in Codecs : \E out0 \in Targets(c.ty) :
          /\ lastR = NoRead
          /\ IF log = << >> THEN TRUE
             ELSE c.p = log[1].p /\ c.ty \in {log[1].ty, Reregistered(log[1].ty)}
          /\ Read(c.ty, c.p, out0, IF out0 = InitVal(c.ty, 0) THEN 0 ELSE 1)

Spec == Init /\ [][Next]_vars

(***************************************************************************)
(* SpecReader: a client that opens an io::Reader on a stream of any        *)
(* content and calls readBytes and readByte on it, in any order.           *)
(***************************************************************************)
MaxRequest == 3

SourceBytes == {0, 7, 255}

RECURSIVE Streams(_)
Streams(n) ==
    IF n = 0 THEN {<< >>}
    ELSE Streams(n - 1)
         \cup {Append(b, x) : b \in {c \in Streams(n - 1) : Len(c) = n - 1},
                               x \in SourceBytes}

\* std::istringstream is(bytes); io::Reader r(is);
InitReader ==
    /\ opt = DefaultOptions
    /\ mode = "r"
    /\ buf \in Streams(MaxStream)
    /\ log = << >>
    /\ rd = FreshReader
    /\ lastR = NoRead

\* r.readBytes(data, n)
Reader_readBytes(n) ==
    /\ mode = "r"
    /\ LET r == readBytes(buf, rd, n)
       IN  /\ rd' = r.rd
           /\ lastR' = [op |-> "readBytes", n |-> n, data |-> r.data,
                        err |-> r.err, rd0 |-> rd]
    /\ UNCHANGED << opt, mode, buf, log >>

\* r.readByte()
Reader_readByte ==
    /\ mode = "r"
    /\ LET r == readByte(buf, rd)
       IN  /\ rd' = r.rd
           /\ lastR' = [op |-> "readByte", n |-> 1,
                        data |-> IF r.err = NoErr THEN << r.b >> ELSE << >>,
                        err |-> r.err, rd0 |-> rd]
    /\ UNCHANGED << opt, mode, buf, log >>

NextReader ==
    \/ \E n \in 0..MaxRequest : Reader_readBytes(n)
    \/ Reader_readByte

SpecReader == InitReader /\ [][NextReader]_vars

(***************************************************************************)
(* SpecConfig: a client that changes GlobalOptions at any moment between   *)
(* its write calls and between its read calls on one stream.               *)
(***************************************************************************)
ConfigCodecs ==
    {[ty |-> UInt(16), p |-> Fixed(0)],
     [ty |-> Str, p |-> Varint],
     [ty |-> Triple, p |-> Varint]}

\* One integer; a string and a sequence within the small limit, and one of
\* each that is one element over it.
ConfigValues(ty) ==
    CASE ty = UInt(16) -> {Bits(258, 16)}
      [] ty = Str -> {Hi, [i \in 1..(SmallMax + 1) |-> 96 + i]}
      [] ty = Triple -> {<<Bits(258, 16)>>, [i \in 1..(SmallMax + 1) |-> Bits(i, 16)]}

\* A write call of the session left its bytes at the Reader's position.
AtWrite(ty, p) ==
    /\ ~rd.fail
    /\ \E i \in 1..Len(log) :
          log[i].at = rd.pos /\ log[i].ty = ty /\ log[i].p = p /\ log[i].err = NoErr

NextConfig ==
    \/ \E e \in Endians : SetEndian(e)
    \/ \E n \in StringLimits : SetMaxStringSize(n)
    \/ \E n \in ContainerLimits : SetMaxContainerSize(n)
    \/ NewSession
    \/ Open
    \/ \E c \in ConfigCodecs : \E v \in ConfigValues(c.ty) : Write(c.ty, c.p, v)
    \/ \E c \in ConfigCodecs :
          AtWrite(c.ty, c.p) /\ Read(c.ty, c.p, InitVal(c.ty, 0), 0)

SpecConfig == Init /\ [][NextConfig]_vars

(***************************************************************************)
(* SpecStream: a client that writes several values back to back onto one   *)
(* stream under the default configuration and reads them back in order,    *)
(* reads on past the end of the stream, or reads a stream that is too      *)
(* short.                                                                  *)
(***************************************************************************)
StreamCodecs ==
    {[ty |-> Bool, p |-> Fixed(0)],
     [ty |-> UInt(16), p |-> Fixed(0)],
     [ty |-> SInt(32), p |-> Varint],
     [ty |-> Str, p |-> Varint],
     [ty |-> Str, p |-> Fixed(2)],
     [ty |-> Triple, p |-> Varint],
     [ty |-> Str, p |-> Fixed(0)],
     [ty |-> ByteArray, p |-> Fixed(0)],
     [ty |-> Triple, p |-> Fixed(0)],
     [ty |-> U8Map, p |-> Fixed(0)]}

StreamValues(ty) ==
    CASE ty = Bool -> {TRUE}
      [] ty = UInt(16) -> {Bits(258, 16)}
      [] ty = SInt(32) -> {LowOnes(32, 32), Bits(300, 32)}
      [] ty = Str -> {<< >>, Hi, Abc}
      [] ty = ByteArray -> {<< >>, <<1, 2>>}
      [] ty = Triple -> {<< >>, <<Bits(258, 16)>>}
      [] ty = U8Map -> {<< >>, << <<Bits(1, 8), Bits(5, 8)>> >>}

\* The target of a read: a fresh object, and for the tags that read nothing
\* also an object that holds an earlier value.
StreamTargets(c) == IF c.p = Fixed(0) THEN Targets(c.ty) ELSE {InitVal(c.ty, 0)}

\* Streams that end inside a value, or hold none.
StreamFeeds == {<< >>, <<1>>, <<3, 104>>, <<128>>}

\* What a client reads where no written value starts.
OverrunCodecs ==
    {[ty |-> Bool, p |-> Fixed(0)],
     [ty |-> UInt(16), p |-> Fixed(0)],
     [ty |-> SInt(32), p |-> Varint],
     [ty |-> Str, p |-> Varint],
     [ty |-> Str, p |-> Fixed(0)],
     [ty |-> Triple, p |-> Fixed(0)]}

NextStream ==
    \/ NewSession
    \/ Open
    \/ \E c \in StreamCodecs : \E v \in StreamValues(c.ty) : Write(c.ty, c.p, v)
    \/ \E b \in StreamFeeds : Feed(b)
    \/ \E c \in StreamCodecs : \E out0 \in StreamTargets(c) :
          /\ IF AtWrite(c.ty, c.p) THEN TRUE
             ELSE /\ c \in OverrunCodecs /\ out0 = InitVal(c.ty, 0)
                  /\ IF log = << >> THEN TRUE ELSE rd.fail \/ rd.pos = Len(buf)
          /\ Read(c.ty, c.p, out0, 0)

SpecStream == Init /\ [][NextStream]_vars

(***************************************************************************)
(* SpecPolicy: a client that sets error_policy, strict_eof and max_depth   *)
(* at any moment around one write and one read of a value, nested or not,  *)
(* or around the read of a stream that makes the decoder raise.            *)
(***************************************************************************)
ErrorPolicies == {"STRICT", "MEDIUM", "IGNORE"}

Depths == {0, default_max_depth}

PolicyValues(ty) ==
    CASE ty = SInt(32) -> {Bits(300, 32)}
      [] ty = Str -> {Hi}
      [] ty = IntOrStr -> {[index |-> 1, value |-> Hi]}
      [] ty = Layer1 -> {v \in Values(Layer1) : Len(v.value) = 1}

PolicyCodecs ==
    {[ty |-> SInt(32), p |-> Varint],
     [ty |-> Str, p |-> Varint],
     [ty |-> IntOrStr, p |-> Varint],
     [ty |-> Layer1, p |-> Omitted]}

\* Streams that end early, carry an over-long varint, announce more than the
\* default maxima, or name a variant alternative that does not exist.
PolicyFeeds ==
    {<< >>, <<2, 104>>, Chain(10, 128, 2), <<255, 255, 255, 255, 15>>, <<2, 7>>,
     <<1, 2, 104, 105>>}

NextPolicy ==
    \/ \E p \in ErrorPolicies : lastR = NoRead /\ SetErrorPolicy(p)
    \/ \E b \in BOOLEAN : lastR = NoRead /\ SetStrictEof(b)
    \/ \E n \in Depths : lastR = NoRead /\ SetMaxDepth(n)
    \/ NewSession
    \/ Open
    \/ \E c \in PolicyCodecs : \E v \in PolicyValues(c.ty) : log = << >> /\ Write(c.ty, c.p, v)
    \/ \E b \in PolicyFeeds : Feed(b)
    \/ \E c \in PolicyCodecs :
          /\ lastR = NoRead
          /\ IF log = << >> THEN TRUE ELSE c.ty = log[1].ty /\ c.p = log[1].p
          /\ Read(c.ty, c.p, InitVal(c.ty, 0), 0)

SpecPolicy == Init /\ [][NextPolicy]_vars

(***************************************************************************)
(* Vocabulary of the properties                                            *)
(***************************************************************************)
\* The write calls whose bytes the last read call started on, with the same
\* type and protocol tag.
ReadBack ==
    IF lastR.op # "read" THEN {}
    ELSE {i \in 1..Len(log) :
            /\ log[i].err = NoErr
            /\ log[i].at = lastR.rd0.pos /\ ~lastR.rd0.fail
            /\ log[i].ty = lastR.ty /\ log[i].p = lastR.p}

\* Bytes the last read call consumed.
Consumed == rd.pos - lastR.rd0.pos

\* Byte k (0 = least significant) of a bit pattern.
ByteAt(v, k) == SumBits([b \in 1..8 |-> v[8 * k + b]], 8)

\* Bit b (1 = least significant) of the number a base-128 chain carries.
ChainBit(bytes, b) ==
    LET g == ((b - 1) \div 7) + 1
    IN  IF g > Len(bytes) THEN 0 ELSE (bytes[g] \div Pow2((b - 1) % 7)) % 2

\* A well-formed base-128 chain: continuation bit on every byte but the last.
IsChain(bytes) ==
    /\ Len(bytes) >= 1
    /\ \A n \in 1..(Len(bytes) - 1) : bytes[n] >= 128
    /\ bytes[Len(bytes)] < 128

IsInt(ty) == ty.k \in {"uint", "int"}

\* operator== of the C++ types: an empty Option equals an empty Option
\* whatever its storage holds; a ByteView is compared by the bytes it spans.
RECURSIVE ValEq(_, _, _)
ValEq(ty, a, b) ==
    CASE ty.k = "vector" ->
            /\ Len(a) = Len(b)
            /\ \A n \in 1..Len(a) : ValEq(ty.elem, a[n], b[n])
      [] ty.k = "map" ->
            /\ Len(a) = Len(b)
            /\ \A n \in 1..Len(a) : /\ ValEq(ty.key, a[n][1], b[n][1])
                                    /\ ValEq(ty.val, a[n][2], b[n][2])
      [] ty.k = "tuple" ->
            /\ Len(a) = Len(b)
            /\ \A n \in 1..Len(a) : ValEq(ty.elems[n], a[n], b[n])
      [] ty.k = "struct" ->
            /\ Len(a) = Len(b)
            /\ \A n \in 1..Len(a) : ValEq(ty.fields[n].ty, a[n], b[n])
      [] ty.k = "option" ->
            /\ a.has_value = b.has_value
            /\ a.has_value => ValEq(ty.elem, a.value, b.value)
      [] ty.k = "variant" ->
            /\ a.index = b.index
            /\ ValEq(ty.alts[a.index + 1], a.value, b.value)
      [] ty.k = "pval" -> ValEq(ty.elem, a.value, b.value)
      [] ty.k = "view" -> a.size = b.size /\ a.data = b.data
      [] OTHER -> a = b

\* v holds no string that FixedWidth(N) would cut or pad, and no length or
\* count that a decoder configured as o rejects.
RECURSIVE RoundTrippable(_, _, _, _)
RoundTrippable(ty, p, v, o) ==
    LET q == IF p.p \in {"Default", "Omitted"} THEN DefaultProtocol(ty) ELSE p
    IN  CASE ty.k = "string" ->
                IF q.p = "Fixed" THEN Len(v) = q.n ELSE Len(v) <= o.max_string_size
          [] ty.k = "bytes" -> q.p = "Fixed" \/ Len(v) <= o.max_string_size
          [] ty.k = "view" -> v.size <= o.max_string_size
          [] ty.k = "vector" ->
                /\ q.p = "Fixed" \/ Len(v) <= o.max_container_size
                /\ \A n \in 1..Len(v) :
                     RoundTrippable(ty.elem, DefaultProtocol(ty.elem), v[n], o)
          [] ty.k = "map" ->
                /\ q.p = "Fixed" \/ Len(v) <= o.max_container_size
                /\ \A n \in 1..Len(v) :
                     /\ RoundTrippable(ty.key, DefaultProtocol(ty.key), v[n][1], o)
                     /\ RoundTrippable(ty.val, DefaultProtocol(ty.val), v[n][2], o)
          [] ty.k = "tuple" ->
                \A n \in 1..Len(v) :
                    RoundTrippable(ty.elems[n], DefaultProtocol(ty.elems[n]), v[n], o)
          [] ty.k = "option" ->
                v.has_value => RoundTrippable(ty.elem, DefaultProtocol(ty.elem), v.value, o)
          [] ty.k = "variant" ->
                RoundTrippable(ty.alts[v.index + 1],
                               DefaultProtocol(ty.alts[v.index + 1]), v.value, o)
          [] ty.k = "struct" ->
                \A n \in 1..Len(v) :
                    RoundTrippable(ty.fields[n].ty, ty.fields[n].p, v[n], o)
          [] ty.k = "pval" -> RoundTrippable(ty.elem, q, v.value, o)
          [] OTHER -> TRUE

\* The write calls read back under the configuration they were written under.
ReadBackSameConfig == {i \in ReadBack : log[i].o = lastR.o}

(***************************************************************************)
(* C1: with the global configuration unchanged in between, decoding under  *)
(* P the bytes produced by encoding v under P succeeds, consumes exactly   *)
(* those bytes and yields a value equal to v, for every supported type and *)
(* protocol, provided v holds no string encoded under FixedWidth(N) whose  *)
(* length differs from N and no length or count above the configured       *)
(* maximum; a string under FixedWidth(N) reads back cut or zero-padded to  *)
(* N bytes.                                                                *)
(***************************************************************************)
C1_RoundTrip ==
    \A i \in ReadBackSameConfig :
        /\ RoundTrippable(log[i].ty, log[i].p, log[i].v, log[i].o) =>
              /\ lastR.err = NoErr
              /\ ValEq(log[i].ty, lastR.out, log[i].v)
              /\ Consumed = Len(log[i].bytes)
        /\ (log[i].ty = Str /\ log[i].p.p = "Fixed") =>
              /\ lastR.err = NoErr
              /\ lastR.out = Resize(log[i].v, log[i].p.n)

\* A record with nested fixed-size fields read back, equal, into a used object.
C1_Witness ==
    \E i \in ReadBackSameConfig :
        /\ log[i].ty = Scene /\ log[i].p = Schema
        /\ lastR.out0 # InitVal(Scene, 0)
        /\ lastR.out0 # log[i].v
        /\ lastR.err = NoErr
        /\ lastR.out = log[i].v

\* C1 as stated, without the proviso: every encoded value reads back equal.
C1_AsStated ==
    \A i \in ReadBackSameConfig :
        /\ lastR.err = NoErr
        /\ ValEq(log[i].ty, lastR.out, log[i].v)

(***************************************************************************)
(* C2: a fixed-width integer is written as exactly sizeof(T) bytes, most   *)
(* significant first under big and least significant first under little,   *)
(* and reading those bytes under the same byte order returns the same bits; *)
(* the raw bytes of a float round-trip bit-exact under either byte order.   *)
(***************************************************************************)
C2_FixedWidthLayout ==
    /\ \A i \in 1..Len(log) :
         LET e == log[i]
             size == e.ty.w \div 8
         IN  (e.p = Fixed(0) /\ IsInt(e.ty)) =>
                /\ e.err = NoErr
                /\ Len(e.bytes) = size
                /\ \A n \in 1..size :
                     e.bytes[n] = ByteAt(e.v, IF e.o.endian = "big" THEN size - n ELSE n - 1)
    /\ \A i \in ReadBack :
         (log[i].p = Fixed(0) /\ (IsInt(log[i].ty) \/ log[i].ty.k = "float")
            /\ (log[i].o.endian = lastR.o.endian \/ log[i].ty.k = "float")) =>
                /\ lastR.err = NoErr
                /\ lastR.out = log[i].v
                /\ Consumed = log[i].ty.w \div 8

\* A multi-byte integer whose bytes are not a palindrome, read back under little.
C2_Witness ==
    \E i \in ReadBack :
        /\ log[i].p = Fixed(0) /\ IsInt(log[i].ty) /\ log[i].ty.w = 32
        /\ log[i].o.endian = "little" /\ lastR.o.endian = "little"
        /\ log[i].bytes[1] # log[i].bytes[4]
        /\ lastR.out = log[i].v


(***************************************************************************)
(* C3: the unsigned varint encoding of v is the minimal base-128 chain,    *)
(* least significant group first: continuation bit on every byte but the   *)
(* last, 7 payload bits per byte, no trailing zero group; 0 is the single  *)
(* byte 0x00, v >= 128 has a continuation byte, 300 is [0xAC, 0x02]; and   *)
(* decoding the bytes returns v.                                           *)
(***************************************************************************)
C3_UnsignedVarintMinimal ==
    /\ \A i \in 1..Len(log) :
         LET e == log[i]
             v == ZeroExt(e.v, W64)
         IN  (e.p = Varint /\ e.ty.k = "uint") =>
                /\ e.err = NoErr
                /\ IsChain(e.bytes)
                /\ Len(e.bytes) = 1 \/ e.bytes[Len(e.bytes)] # 0
                /\ \A b \in 1..W64 : ChainBit(e.bytes, b) = v[b]
                /\ (e.v = Bits(0, e.ty.w)) => e.bytes = << 0 >>
                /\ BvGe(v, 128) => \E n \in 1..Len(e.bytes) : e.bytes[n] >= 128
                /\ (e.ty.w >= 16 /\ e.v = Bits(300, e.ty.w)) => e.bytes = << 172, 2 >>
    /\ \A i \in ReadBack :
         (log[i].p = Varint /\ log[i].ty.k = "uint") =>
            /\ lastR.err = NoErr
            /\ lastR.out = log[i].v
            /\ Consumed = Len(log[i].bytes)

\* The 64-bit all-ones value read back from its ten bytes.
C3_Witness ==
    \E i \in ReadBack :
        /\ log[i].p = Varint /\ log[i].ty = UInt(64)
        /\ log[i].v = LowOnes(64, 64)
        /\ Len(log[i].bytes) = 10
        /\ lastR.out = log[i].v

\* Leading bytes of s, from offset pos, that carry the continuation bit.
RECURSIVE LeadingCont(_, _)
LeadingCont(s, pos) ==
    IF pos < Len(s) /\ s[pos + 1] >= 128 THEN 1 + LeadingCont(s, pos + 1) ELSE 0

IsVarintIntRead == lastR.op = "read" /\ lastR.p = Varint /\ IsInt(lastR.ty) /\ ~lastR.rd0.fail

(***************************************************************************)
(* C4: a varint decode raises InvalidVarint exactly when ten consecutive   *)
(* bytes carry the continuation bit (the shift would reach 64); a chain    *)
(* the stream ends before terminating raises UnexpectedEOF; a terminated   *)
(* chain of at most ten bytes is accepted; and no chain the encoder wrote  *)
(* raises InvalidVarint.                                                   *)
(***************************************************************************)
C4_InvalidVarintExactly ==
    /\ IsVarintIntRead =>
         LET c == LeadingCont(buf, lastR.rd0.pos)
         IN  /\ (lastR.err = "InvalidVarint") <=> (c >= 10)
             /\ (c < 10 /\ lastR.rd0.pos + c = Len(buf)) => lastR.err = "UnexpectedEOF"
             /\ (c < 10 /\ lastR.rd0.pos + c < Len(buf)) =>
                    lastR.err = NoErr /\ Consumed = c + 1
             /\ lastR.err = "InvalidVarint" => Consumed = 10
    /\ \A i \in ReadBack :
         (log[i].p = Varint /\ IsInt(log[i].ty)) => lastR.err # "InvalidVarint"

\* An eleven-byte chain: the decode stops at the tenth byte with InvalidVarint.
C4_Witness ==
    /\ IsVarintIntRead
    /\ lastR.err = "InvalidVarint"
    /\ Len(buf) >= 11
    /\ rd.pos = 10

\* The ZigZag image of a w-bit x, directly: 2x for x >= 0, -2x - 1 for x < 0,
\* as an unsigned 64-bit number.
ZigZagOf(x) ==
    IF x[Len(x)] = 0 THEN ZeroExt(BvShl(x, 1), W64)
    ELSE ZeroExt(BvNot(BvShl(x, 1)), W64)

(***************************************************************************)
(* C5: ZigZag maps 0 to 0, -1 to 1 and 1 to 2 before the varint encoding,  *)
(* and zigzag_decode(zigzag_encode(x)) = x for every signed x, the minimum *)
(* and the maximum of the type included: a signed varint reads back as     *)
(* written.                                                                *)
(***************************************************************************)
C5_ZigZagBoundaries ==
    /\ \A i \in 1..Len(log) :
         LET e == log[i]
             x == SignExt(e.v, W64)
         IN  (e.p = Varint /\ e.ty.k = "int") =>
                /\ zigzag_decode(zigzag_encode(x)) = x
                /\ (e.v = Bits(0, e.ty.w)) =>
                      zigzag_encode(x) = Bits(0, W64) /\ e.bytes = << 0 >>
                /\ (e.v = LowOnes(e.ty.w, e.ty.w)) =>
                      zigzag_encode(x) = Bits(1, W64) /\ e.bytes = << 1 >>
                /\ (e.v = Bits(1, e.ty.w)) =>
                      zigzag_encode(x) = Bits(2, W64) /\ e.bytes = << 2 >>
    /\ \A i \in ReadBack :
         (log[i].p = Varint /\ log[i].ty.k = "int") =>
            lastR.err = NoErr /\ lastR.out = log[i].v

\* The minimum int64_t read back.
C5_Witness ==
    \E i \in ReadBack :
        /\ log[i].p = Varint /\ log[i].ty = SInt(64)
        /\ log[i].v = OneBit(63, 64)
        /\ lastR.out = log[i].v

(***************************************************************************)
(* C6: for a signed type of width w the number that is base-128 encoded is *)
(* (x << 1) XOR (x >> (w - 1)) computed at width w; the 64-bit computation *)
(* on the sign-extended value yields the same number, so the int32_t -1 is *)
(* written as [0x01] and reads back as -1.                                 *)
(***************************************************************************)
C6_ZigZagWidthIndependent ==
    /\ \A i \in 1..Len(log) :
         LET e == log[i]
             w == e.ty.w
             zw == ZeroExt(BvXor(BvShl(e.v, 1), BvSar(e.v, w - 1)), W64)
         IN  (e.p = Varint /\ e.ty.k = "int") =>
                /\ IsChain(e.bytes)
                /\ \A b \in 1..W64 : ChainBit(e.bytes, b) = zw[b]
                /\ zw = ZigZagOf(e.v)
                /\ (w = 32 /\ e.v = LowOnes(32, 32)) => e.bytes = << 1 >>
    /\ \A i \in ReadBack :
         (log[i].p = Varint /\ log[i].ty = SInt(32) /\ log[i].v = LowOnes(32, 32)) =>
            lastR.err = NoErr /\ lastR.out = LowOnes(32, 32)

\* int32_t -1 written as one byte and read back.
C6_Witness ==
    \E i \in ReadBack :
        /\ log[i].p = Varint /\ log[i].ty = SInt(32)
        /\ log[i].v = LowOnes(32, 32)
        /\ log[i].bytes = << 1 >>
        /\ lastR.out = LowOnes(32, 32)


\* The protocol tag a call with tag p on type ty resolves to.
Resolved(ty, p) == IF p.p \in {"Default", "Omitted"} THEN DefaultProtocol(ty) ELSE p

\* The last read decoded, at the top level, a length-prefixed string,
\* byte-buffer or byte view / a count-prefixed sequence or key-value collection.
IsLengthRead ==
    /\ lastR.op = "read" /\ ~lastR.rd0.fail
    /\ lastR.ty.k \in {"string", "bytes", "view"}
    /\ Resolved(lastR.ty, lastR.p) = Varint

IsCountRead ==
    /\ lastR.op = "read" /\ ~lastR.rd0.fail
    /\ lastR.ty.k \in {"vector", "map"}
    /\ Resolved(lastR.ty, lastR.p) = Varint

\* The stream holds a terminated prefix of at most ten bytes where the last
\* read started; its byte count and the number it carries.
HasPrefix ==
    LET c == LeadingCont(buf, lastR.rd0.pos)
    IN  c < 10 /\ lastR.rd0.pos + c < Len(buf)

PrefixLen == LeadingCont(buf, lastR.rd0.pos) + 1

PrefixValue ==
    LET chain == SubSeq(buf, lastR.rd0.pos + 1, lastR.rd0.pos + PrefixLen)
    IN  [b \in 1..W64 |-> ChainBit(chain, b)]

(***************************************************************************)
(* C7: decoding a length-prefixed string, byte-buffer or byte view whose   *)
(* prefix exceeds the current maxStringSize, or a count-prefixed sequence  *)
(* or key-value collection whose prefix exceeds the current                *)
(* maxContainerSize, raises LengthOverflow with nothing allocated, resized *)
(* or reserved, no byte read past the prefix and the target untouched; and *)
(* no decode of any type ever sizes an allocation by a length or count     *)
(* above the current maximum.                                              *)
(***************************************************************************)
C7_LengthOverflowBeforeAllocation ==
    /\ (IsLengthRead /\ HasPrefix /\ BvGt(PrefixValue, lastR.o.max_string_size)) =>
          /\ lastR.err = "LengthOverflow"
          /\ lastR.ev = << >>
          /\ Consumed = PrefixLen
          /\ lastR.out = lastR.out0
    /\ (IsCountRead /\ HasPrefix /\ BvGt(PrefixValue, lastR.o.max_container_size)) =>
          /\ lastR.err = "LengthOverflow"
          /\ lastR.ev = << >>
          /\ Consumed = PrefixLen
          /\ lastR.out = lastR.out0
    /\ lastR.op = "read" =>
          \A n \in 1..Len(lastR.ev) :
              /\ lastR.ev[n].by = "length" => lastR.ev[n].n <= lastR.o.max_string_size
              /\ lastR.ev[n].by = "count" => lastR.ev[n].n <= lastR.o.max_container_size

\* A string of one byte more than the configured maximum, all its bytes on
\* the stream, refused into a target that held a value.
C7_Witness ==
    /\ IsLengthRead /\ HasPrefix
    /\ lastR.ty = Str
    /\ lastR.o.max_string_size = SmallMax
    /\ PrefixValue = Bits(SmallMax + 1, W64)
    /\ Len(buf) = PrefixLen + SmallMax + 1
    /\ lastR.out0 # << >>
    /\ lastR.err = "LengthOverflow"
    /\ rd.pos = PrefixLen

\* The elements of a sequence of byte strings, end to end.
RECURSIVE Concat(_)
Concat(ss) == IF ss = << >> THEN << >> ELSE Head(ss) \o Concat(Tail(ss))

\* A sequence, bare or boxed in a PVal, encoded under FixedWidth(N).
IsFixedVector(ty, p) ==
    /\ p.p = "Fixed"
    /\ IF ty.k = "pval" THEN ty.elem.k = "vector" ELSE ty.k = "vector"

VecTy(ty) == IF ty.k = "pval" THEN ty.elem ELSE ty

VecVal(ty, v) == IF ty.k = "pval" THEN v.value ELSE v

\* The fields of a record that are sequences under FixedWidth(N).
FixedVectorFields(ty) ==
    IF ty.k # "struct" THEN {}
    ELSE {n \in 1..Len(ty.fields) : IsFixedVector(ty.fields[n].ty, ty.fields[n].p)}

(***************************************************************************)
(* C8: under FixedWidth(N), encoding a sequence whose length differs from  *)
(* N raises LengthOverflow and emits nothing (2 elements under             *)
(* FixedWidth(3) included), also when the sequence is a record field;      *)
(* encoding a sequence of length N emits the N element encodings and no    *)
(* length prefix; and every decode that returns yields exactly N elements. *)
(***************************************************************************)
C8_FixedSequenceShape ==
    /\ \A i \in 1..Len(log) :
         LET e == log[i]
         IN  /\ IsFixedVector(e.ty, e.p) =>
                  LET T == VecTy(e.ty).elem
                      vec == VecVal(e.ty, e.v)
                  IN  IF Len(vec) # e.p.n
                      THEN e.err = "LengthOverflow" /\ e.bytes = << >>
                      ELSE /\ e.err = NoErr
                           /\ e.bytes = Concat([n \in 1..Len(vec) |->
                                  Serializer_write(T, DefaultProtocol(T), vec[n], e.o).bytes])
             /\ \A f \in FixedVectorFields(e.ty) :
                  Len(VecVal(e.ty.fields[f].ty, e.v[f])) # e.ty.fields[f].p.n =>
                      e.err = "LengthOverflow"
    /\ (lastR.op = "read" /\ lastR.err = NoErr) =>
         /\ IsFixedVector(lastR.ty, lastR.p) =>
              Len(VecVal(lastR.ty, lastR.out)) = lastR.p.n
         /\ \A f \in FixedVectorFields(lastR.ty) :
              Len(VecVal(lastR.ty.fields[f].ty, lastR.out[f])) = lastR.ty.fields[f].p.n

\* Two elements under FixedWidth(3): the encode raises LengthOverflow.
C8_Witness ==
    /\ Len(log) = 1
    /\ log[1].ty = Triple /\ log[1].p = Fixed(3)
    /\ Len(log[1].v) = 2
    /\ log[1].err = "LengthOverflow"
    /\ buf = << >>

\* The last read decoded a key-value collection of one-byte keys and values.
IsByteMapRead ==
    /\ lastR.op = "read" /\ ~lastR.rd0.fail
    /\ lastR.ty.k = "map" /\ lastR.ty.key = UInt(8) /\ lastR.ty.val = UInt(8)
    /\ lastR.p.p = "Fixed" \/ (lastR.p = Varint /\ HasPrefix)

\* The entry count the tag or the prefix announces, and the stream offset of
\* the first entry.
MapAnnounced == IF lastR.p.p = "Fixed" THEN lastR.p.n ELSE Val(PrefixValue)

MapBase == lastR.rd0.pos + (IF lastR.p.p = "Fixed" THEN 0 ELSE PrefixLen)

KeyAt(n) == buf[MapBase + 2 * n - 1]

ValAt(n) == buf[MapBase + 2 * n]

(***************************************************************************)
(* C9: every successful decode of a key-value collection under             *)
(* FixedWidth(N), or under Varint with count prefix N, consumes N entries  *)
(* and yields one entry per distinct key among them, the first value       *)
(* decoded for a key being kept: exactly N entries when the N keys are     *)
(* pairwise distinct, fewer when a key occurs more than once.              *)
(***************************************************************************)
C9_MapShape ==
    (IsByteMapRead /\ lastR.err = NoErr) =>
        LET N == MapAnnounced
            Keys == {KeyAt(n) : n \in 1..N}
        IN  /\ Consumed = (MapBase - lastR.rd0.pos) + 2 * N
            /\ Len(lastR.out) = Cardinality(Keys)
            /\ Len(lastR.out) <= N
            /\ Cardinality(Keys) = N => Len(lastR.out) = N
            /\ \A m \in 1..Len(lastR.out) :
                 \E n \in 1..N :
                     /\ lastR.out[m] = << Bits(KeyAt(n), 8), Bits(ValAt(n), 8) >>
                     /\ \A n2 \in 1..(n - 1) : KeyAt(n2) # KeyAt(n)

\* Two entries with the same key under FixedWidth(2): one entry comes back,
\* holding the first value.
C9_Witness ==
    /\ IsByteMapRead /\ lastR.err = NoErr
    /\ lastR.p = Fixed(2)
    /\ KeyAt(1) = KeyAt(2) /\ ValAt(1) # ValAt(2)
    /\ lastR.out = << << Bits(KeyAt(1), 8), Bits(ValAt(1), 8) >> >>

\* C9 as stated: the decoded collection has exactly the announced entry count.
C9_AsStated ==
    (IsByteMapRead /\ lastR.err = NoErr) => Len(lastR.out) = MapAnnounced

IsVariantRead ==
    /\ lastR.op = "read" /\ ~lastR.rd0.fail
    /\ lastR.ty.k = "variant" /\ lastR.p = Varint
    /\ HasPrefix

(***************************************************************************)
(* C10: a tagged union with k alternatives is encoded as its zero-based    *)
(* active index in base 128 followed by the payload under the active       *)
(* alternative's default protocol; decoding a discriminant d >= k (d = k   *)
(* included) raises VariantOutOfRange with no byte read past the           *)
(* discriminant and the target untouched; a successful decode has active   *)
(* index d < k; and an encoded union reads back with the same index and    *)
(* payload.                                                                *)
(***************************************************************************)
C10_VariantDiscriminant ==
    /\ \A i \in 1..Len(log) :
         LET e == log[i]
         IN  (e.ty.k = "variant" /\ e.p = Varint) =>
                LET T == e.ty.alts[e.v.index + 1]
                    h == Serializer_write(T, DefaultProtocol(T), e.v.value, e.o)
                IN  /\ e.err = h.err
                    /\ e.bytes = << e.v.index >> \o h.bytes
    /\ IsVariantRead =>
         LET k == Len(lastR.ty.alts)
         IN  /\ BvGe(PrefixValue, k) =>
                  /\ lastR.err = "VariantOutOfRange"
                  /\ Consumed = PrefixLen
                  /\ lastR.out = lastR.out0
                  /\ lastR.ev = << >>
             /\ ~BvGe(PrefixValue, k) =>
                  /\ lastR.err # "VariantOutOfRange"
                  /\ lastR.err = NoErr => lastR.out.index = Val(PrefixValue)
    /\ \A i \in ReadBack :
         (log[i].ty.k = "variant" /\ log[i].p = Varint
            /\ RoundTrippable(log[i].ty, log[i].p, log[i].v, lastR.o)) =>
                /\ lastR.err = NoErr
                /\ lastR.out.index = log[i].v.index
                /\ lastR.out.value = log[i].v.value
                /\ Consumed = Len(log[i].bytes)

\* A discriminant equal to the alternative count, a payload byte after it:
\* VariantOutOfRange with the payload byte unread.
C10_Witness ==
    /\ IsVariantRead
    /\ PrefixValue = Bits(Len(lastR.ty.alts), W64)
    /\ Len(buf) > PrefixLen
    /\ lastR.err = "VariantOutOfRange"
    /\ rd.pos = PrefixLen

IsOptionRead ==
    /\ lastR.op = "read" /\ ~lastR.rd0.fail
    /\ lastR.ty.k = "option" /\ lastR.p = Varint
    /\ HasPrefix

\* The encoder's side of an optional and the decoder's on flags 0 and 1: the
\* flag byte is 0 or 1, the payload follows only when present; flag 0 decodes
\* to absent with no payload byte read, flag 1 to present with the payload.
OptionFlagZeroOne ==
    /\ \A i \in 1..Len(log) :
         LET e == log[i]
         IN  (e.ty.k = "option" /\ e.p = Varint) =>
                LET h == Serializer_write(e.ty.elem, DefaultProtocol(e.ty.elem),
                                          e.v.value, e.o)
                IN  IF e.v.has_value
                    THEN e.err = h.err /\ e.bytes = << 1 >> \o h.bytes
                    ELSE e.err = NoErr /\ e.bytes = << 0 >>
    /\ (IsOptionRead /\ PrefixValue = Bits(0, W64)) =>
          /\ lastR.err = NoErr
          /\ ~lastR.out.has_value
          /\ Consumed = PrefixLen
    /\ (IsOptionRead /\ PrefixValue = Bits(1, W64) /\ lastR.err = NoErr) =>
          LET T == lastR.ty.elem
              h == Serializer_read(T, DefaultProtocol(T),
                                   [is |-> buf, o |-> lastR.o, j |-> 0],
                                   [pos |-> lastR.rd0.pos + PrefixLen, fail |-> FALSE],
                                   lastR.out0.value)
          IN  lastR.out.has_value /\ lastR.out.value = h.out
    /\ \A i \in ReadBackSameConfig :
         (log[i].ty.k = "option" /\ log[i].p = Varint
            /\ RoundTrippable(log[i].ty, log[i].p, log[i].v, lastR.o)) =>
                /\ lastR.err = NoErr
                /\ lastR.out.has_value = log[i].v.has_value
                /\ lastR.out.has_value => lastR.out.value = log[i].v.value

\* Every stream the decoder of an optional accepts starts with flag 0 or 1.
OptionFlagValidated ==
    (IsOptionRead /\ lastR.err = NoErr) =>
        PrefixValue \in {Bits(0, W64), Bits(1, W64)}

(***************************************************************************)
(* C11: an optional is encoded as a presence flag that is exactly 0 or 1   *)
(* followed by the payload only when present; flag 0 decodes to absent and *)
(* reads no payload byte, flag 1 decodes to present with the payload; and  *)
(* on every accepted stream the flag is one of 0 and 1.                    *)
(***************************************************************************)
C11_AsStated == OptionFlagZeroOne /\ OptionFlagValidated

(***************************************************************************)
(* C12: a string under Varint is encoded as its length in base 128         *)
(* followed by its raw bytes ("hi" gives [0x02, 'h', 'i']); under          *)
(* FixedWidth(N) the encoding never fails and is exactly N bytes, the      *)
(* first min(len, N) bytes of the string followed by zero bytes ("hi"      *)
(* under FixedWidth(4) gives ['h', 'i', 0, 0]); and a decode under         *)
(* FixedWidth(N) consumes exactly N bytes and returns them, or raises      *)
(* UnexpectedEOF when fewer than N remain.                                 *)
(***************************************************************************)
C12_StringLayout ==
    /\ \A i \in 1..Len(log) :
         LET e == log[i]
             q == Resolved(e.ty, e.p)
         IN  /\ (e.ty = Str /\ q = Varint) =>
                  /\ e.err = NoErr
                  /\ e.bytes = << Len(e.v) >> \o e.v
                  /\ e.v = Hi => e.bytes = << 2, 104, 105 >>
             /\ (e.ty = Str /\ q.p = "Fixed") =>
                  /\ e.err = NoErr
                  /\ Len(e.bytes) = q.n
                  /\ \A n \in 1..q.n :
                       e.bytes[n] = IF n <= Len(e.v) THEN e.v[n] ELSE 0
                  /\ (e.v = Hi /\ q.n = 4) => e.bytes = << 104, 105, 0, 0 >>
    /\ (lastR.op = "read" /\ ~lastR.rd0.fail /\ lastR.ty = Str /\ lastR.p.p = "Fixed") =>
         IF lastR.rd0.pos + lastR.p.n <= Len(buf)
         THEN /\ lastR.err = NoErr
              /\ Consumed = lastR.p.n
              /\ lastR.out = SubSeq(buf, lastR.rd0.pos + 1, lastR.rd0.pos + lastR.p.n)
         ELSE lastR.err = "UnexpectedEOF"

\* "hi" under FixedWidth(4): four bytes written, four bytes read back.
C12_Witness ==
    \E i \in ReadBack :
        /\ log[i].ty = Str /\ log[i].p = Fixed(4) /\ log[i].v = Hi
        /\ log[i].bytes = << 104, 105, 0, 0 >>
        /\ lastR.err = NoErr
        /\ rd.pos = 4
        /\ lastR.out = << 104, 105, 0, 0 >>

(***************************************************************************)
(* C13: encoding a byte-buffer of any length under FixedWidth(N) never     *)
(* raises an error and emits exactly N bytes: the buffer cut to N bytes    *)
(* when longer, followed by zero bytes up to N when shorter.               *)
(***************************************************************************)
C13_AsStated ==
    \A i \in 1..Len(log) :
        LET e == log[i]
        IN  (e.ty = ByteArray /\ e.p.p = "Fixed") =>
               /\ e.err = NoErr
               /\ Len(e.bytes) = e.p.n
               /\ \A n \in 1..e.p.n :
                    e.bytes[n] = IF n <= Len(e.v) THEN e.v[n] ELSE 0

\* What the byte-buffer encoder does instead: a buffer of N bytes is written
\* as it is, any other length raises LengthOverflow with nothing written.
ByteArrayFixedExact ==
    \A i \in 1..Len(log) :
        LET e == log[i]
        IN  (e.ty = ByteArray /\ e.p.p = "Fixed") =>
               IF Len(e.v) = e.p.n
               THEN e.err = NoErr /\ e.bytes = e.v
               ELSE e.err = "LengthOverflow" /\ e.bytes = << >>

\* The encoding of field n of the record written by log entry e, alone.
FieldWrite(e, n) ==
    Serializer_write(e.ty.fields[n].ty, e.ty.fields[n].p, e.v[n], e.o)

\* The fields of e up to the first whose encoder raises (all, if none does).
FieldsWritten(e) ==
    LET bad == {n \in 1..Len(e.ty.fields) : FieldWrite(e, n).err # NoErr}
    IN  IF bad = {} THEN Len(e.ty.fields)
        ELSE CHOOSE n \in bad : \A m \in bad : n <= m

\* The bytes b_n .. b_m of the stream as an unsigned number in byte order o.
StreamUInt(pos, size, o) ==
    [b \in 1..(8 * size) |->
        LET k == (b - 1) \div 8
            byte == buf[pos + (IF o.endian = "big" THEN size - k ELSE k + 1)]
        IN  (byte \div Pow2((b - 1) % 8)) % 2]

(***************************************************************************)
(* C14: the encoding of a record under Schema is the concatenation, in     *)
(* registration order, of each field's encoding under the field's own      *)
(* protocol (its type default, or the override of the descriptor), with    *)
(* nothing before, between or after, and stops at the first field whose    *)
(* encoder raises; decode reads the fields in the same order; a record     *)
(* field is encoded by the same rule.                                      *)
(***************************************************************************)
C14_SchemaPositional ==
    /\ \A i \in 1..Len(log) :
         LET e == log[i]
         IN  (e.ty.k = "struct" /\ Resolved(e.ty, e.p) = Schema) =>
                LET last == FieldsWritten(e)
                IN  /\ e.bytes = Concat([n \in 1..last |-> FieldWrite(e, n).bytes])
                    /\ e.err = FieldWrite(e, last).err
    /\ \A i \in 1..Len(log) :
         LET e == log[i]
         IN  (e.ty = Stage /\ e.err = NoErr) =>
                e.bytes = << ByteAt(e.v[1], 0), ByteAt(e.v[2][1], 0) >>
                          \o Serializer_write(UInt(16), Fixed(0), e.v[2][2], e.o).bytes
    /\ (lastR.op = "read" /\ ~lastR.rd0.fail /\ lastR.err = NoErr) =>
         LET at == lastR.rd0.pos
         IN  /\ lastR.ty = Point =>
                  lastR.out = << StreamUInt(at, 1, lastR.o), StreamUInt(at + 1, 2, lastR.o) >>
             /\ lastR.ty = PointYX =>
                  lastR.out = << StreamUInt(at, 2, lastR.o), StreamUInt(at + 2, 1, lastR.o) >>
             /\ lastR.ty = Stage =>
                  lastR.out = << StreamUInt(at, 1, lastR.o),
                                 << StreamUInt(at + 1, 1, lastR.o),
                                    StreamUInt(at + 2, 2, lastR.o) >> >>

\* A record holding a record, written as four bytes and read back.
C14_Witness ==
    \E i \in ReadBack :
        /\ log[i].ty = Stage
        /\ log[i].v = <<Bits(7, 8), <<Bits(1, 8), Bits(515, 16)>> >>
        /\ log[i].o.endian = "big" /\ lastR.o.endian = "big"
        /\ log[i].bytes = << 7, 1, 2, 3 >>
        /\ lastR.err = NoErr
        /\ lastR.out = log[i].v

\* The last read decoded, under the other registration of its fields, the
\* record that log entry i encoded.
CrossRead ==
    {i \in 1..Len(log) :
        /\ lastR.op = "read" /\ ~lastR.rd0.fail
        /\ log[i].err = NoErr /\ log[i].at = lastR.rd0.pos
        /\ log[i].ty \in {Point, PointYX}
        /\ lastR.ty = Reregistered(log[i].ty) /\ lastR.p = log[i].p
        /\ log[i].o = lastR.o}

\* The value of the field called name in record v of type ty.
FieldNamed(ty, v, name) ==
    v[CHOOSE n \in 1..Len(ty.fields) : ty.fields[n].name = name]

\* Two records hold the same value in every field, whatever the order of
\* registration.
SameFields(ty1, v1, ty2, v2) ==
    \A n \in 1..Len(ty1.fields) :
        v1[n] = FieldNamed(ty2, v2, ty1.fields[n].name)

\* The record of log entry e as the other registration lays it out, and the
\* bytes the other registration writes for it.
Relaid(e) ==
    LET ty2 == Reregistered(e.ty)
    IN  [n \in 1..Len(ty2.fields) |-> FieldNamed(e.ty, e.v, ty2.fields[n].name)]

RelaidBytes(e) == Serializer_write(Reregistered(e.ty), e.p, Relaid(e), e.o).bytes

\* The encodings of the two fields of e give the same bytes in either order.
FieldsCommute(e) ==
    FieldWrite(e, 1).bytes \o FieldWrite(e, 2).bytes
        = FieldWrite(e, 2).bytes \o FieldWrite(e, 1).bytes

(***************************************************************************)
(* C15: field order is part of the wire contract.  For two registrations   *)
(* of the same two fields in different order, the byte streams of a record *)
(* differ, and the stream of one registration decodes under the other to a *)
(* record with different field values, exactly when the two field          *)
(* encodings do not commute under concatenation (in particular when they   *)
(* are different and of the same length); records whose field encodings    *)
(* commute, such as x = 0x01, y = 0x0101, have the same stream under both  *)
(* registrations and decode to the same record.                            *)
(***************************************************************************)
C15_FieldOrderContract ==
    /\ \A i \in 1..Len(log) :
         LET e == log[i]
         IN  (e.ty \in {Point, PointYX} /\ e.err = NoErr) =>
                (e.bytes # RelaidBytes(e)) <=> ~FieldsCommute(e)
    /\ \A i \in CrossRead :
         /\ lastR.err = NoErr
         /\ SameFields(log[i].ty, log[i].v, lastR.ty, lastR.out) <=> FieldsCommute(log[i])

\* x = 1, y = 0x0203 written as x, y and decoded as y, x: other field values.
C15_Witness ==
    \E i \in CrossRead :
        /\ log[i].ty = Point /\ log[i].v = <<Bits(1, 8), Bits(515, 16)>>
        /\ log[i].o.endian = "big"
        /\ log[i].bytes = << 1, 2, 3 >>
        /\ RelaidBytes(log[i]) = << 2, 3, 1 >>
        /\ lastR.err = NoErr
        /\ lastR.out = <<Bits(258, 16), Bits(3, 8)>>

\* C15 as stated: whenever the field encodings are pairwise distinct, the two
\* registrations' byte streams differ.
C15_AsStated ==
    \A i \in 1..Len(log) :
        LET e == log[i]
        IN  (e.ty \in {Point, PointYX} /\ e.err = NoErr
               /\ FieldWrite(e, 1).bytes # FieldWrite(e, 2).bytes) =>
                  e.bytes # RelaidBytes(e)

\* The bytes of v as a value of type T under T's own default protocol.
OwnBytes(T, v, o) == Serializer_write(T, DefaultProtocol(T), v, o).bytes

\* The two's-complement bytes of bit pattern v in byte order o.
FixedBytes(v, o) ==
    LET size == Len(v) \div 8
    IN  [n \in 1..size |-> ByteAt(v, IF o.endian = "big" THEN size - n ELSE n - 1)]

(***************************************************************************)
(* C16: the tag of an outer value is not handed down.  The elements of a   *)
(* sequence, the keys and values of a key-value collection, the elements   *)
(* of a tuple, the payload of an optional and of a tagged union are each   *)
(* encoded under their own type's default protocol, whatever the outer     *)
(* tag: a sequence of 32-bit integers under Varint is a varint count and   *)
(* 4-byte fixed-width elements, a sequence of strings under FixedWidth(2)  *)
(* holds two length-prefixed strings; an element that is a value box is    *)
(* encoded under the tag the box carries.                                  *)
(***************************************************************************)
C16_TagsDoNotPropagate ==
    /\ \A i \in 1..Len(log) :
         LET e == log[i]
             q == Resolved(e.ty, e.p)
             v == e.v
         IN  e.err = NoErr =>
               /\ e.ty.k = "vector" =>
                    e.bytes = (IF q = Varint THEN << Len(v) >> ELSE << >>)
                              \o Concat([n \in 1..Len(v) |-> OwnBytes(e.ty.elem, v[n], e.o)])
               /\ e.ty.k = "map" =>
                    e.bytes = (IF q = Varint THEN << Len(v) >> ELSE << >>)
                              \o Concat([n \in 1..Len(v) |->
                                    OwnBytes(e.ty.key, v[n][1], e.o)
                                    \o OwnBytes(e.ty.val, v[n][2], e.o)])
               /\ e.ty.k = "tuple" =>
                    e.bytes = Concat([n \in 1..Len(v) |-> OwnBytes(e.ty.elems[n], v[n], e.o)])
               /\ (e.ty.k = "option" /\ v.has_value) =>
                    e.bytes = << 1 >> \o OwnBytes(e.ty.elem, v.value, e.o)
               /\ e.ty.k = "variant" =>
                    e.bytes = << v.index >> \o OwnBytes(e.ty.alts[v.index + 1], v.value, e.o)
               /\ (e.ty = IntVec /\ q = Varint) =>
                    e.bytes = << Len(v) >> \o Concat([n \in 1..Len(v) |-> FixedBytes(v[n], e.o)])
               /\ e.ty = Triple =>
                    e.bytes = (IF q = Varint THEN << Len(v) >> ELSE << >>)
                              \o Concat([n \in 1..Len(v) |-> FixedBytes(v[n], e.o)])
               /\ (e.ty = Names /\ q.p = "Fixed") =>
                    e.bytes = Concat([n \in 1..Len(v) |-> << Len(v[n]) >> \o v[n]])
               /\ e.ty = Pair =>
                    e.bytes = << ByteAt(v[1], 0) >> \o << Len(v[2]) >> \o v[2]
               /\ e.ty = Layer2 =>
                    e.bytes = (IF q = Varint THEN << Len(v.value) >> ELSE << >>)
                              \o Concat([n \in 1..Len(v.value) |->
                                 write_signed_Varint(v.value[n].value).bytes])
    /\ (lastR.op = "read" /\ ~lastR.rd0.fail /\ lastR.err = NoErr
          /\ lastR.ty = IntVec /\ lastR.p = Varint) =>
         /\ Consumed = PrefixLen + 4 * Val(PrefixValue)
         /\ Len(lastR.out) = Val(PrefixValue)
         /\ \A n \in 1..Len(lastR.out) :
              lastR.out[n] = StreamUInt(lastR.rd0.pos + PrefixLen + 4 * (n - 1), 4, lastR.o)

\* One 32-bit integer, 300, in a sequence under Varint: a count byte and four
\* fixed-width bytes, not the two bytes of a varint.
C16_Witness ==
    \E i \in ReadBack :
        /\ log[i].ty = IntVec /\ log[i].p = Varint
        /\ log[i].v = << Bits(300, 32) >>
        /\ log[i].o.endian = "big" /\ lastR.o.endian = "big"
        /\ log[i].bytes = << 1, 0, 0, 1, 44 >>
        /\ lastR.err = NoErr
        /\ lastR.out = log[i].v

\* The write call of log entry e handed a value box to bsp::write.
IsBoxWrite(e) == e.ty.k = "pval"

\* The call named no tag, or the tag the box carries.
UnderCarriedTag(e) == e.p = Omitted \/ e.p = e.ty.proto

C18_ExplicitTagOverrides ==
    /\ \A i \in 1..Len(log) :
         LET e == log[i]
             def == Serializer_write(e.ty, DefaultProtocol(e.ty), e.v, e.o)
         IN  /\ e.p \in {Omitted, Default} => e.bytes = def.bytes /\ e.err = def.err
             /\ (e.ty = Str /\ e.p.p = "Fixed") =>
                  e.bytes = write_string_Fixed(e.v, e.p.n).bytes
             /\ (e.ty = Str /\ e.p = Varint) => e.bytes = write_string_Varint(e.v).bytes
             /\ (e.ty = SInt(32) /\ e.p = Varint) =>
                  e.bytes = write_signed_Varint(e.v).bytes
             /\ (e.ty = SInt(32) /\ e.p = Omitted) =>
                  e.bytes = write_signed_Fixed(e.v, e.o).bytes
             /\ (e.ty = ByteArray /\ e.p.p = "Fixed") =>
                  e.bytes = write_ByteArray_Fixed(e.v, e.p.n).bytes
             /\ (e.ty = Triple /\ e.p.p = "Fixed") =>
                  e.bytes = write_vector_Fixed(e.ty, e.v, e.o, e.p.n).bytes
             /\ (e.ty = Triple /\ e.p \in {Varint, Omitted}) =>
                  e.bytes = write_vector_Varint(e.ty, e.v, e.o).bytes
             /\ (e.ty = U8Map /\ e.p.p = "Fixed") =>
                  e.bytes = write_map_Fixed(e.ty, e.v, e.o, e.p.n).bytes
    /\ (lastR.op = "read" /\ lastR.p \in {Omitted, Default}) =>
         LET h == Serializer_read(lastR.ty, DefaultProtocol(lastR.ty),
                                  [is |-> buf, o |-> lastR.o,
                                   j |-> IF lastR.out0 = InitVal(lastR.ty, 0) THEN 0 ELSE 1],
                                  lastR.rd0, lastR.out0)
         IN  lastR.out = h.out /\ lastR.err = h.err /\ rd = h.rd

\* A 32-bit integer written with no tag takes its default, four fixed-width
\* bytes, where the call naming Varint would have written one.
C18_Witness ==
    \E i \in ReadBack :
        /\ log[i].ty = SInt(32) /\ log[i].p = Omitted
        /\ log[i].v = LowOnes(32, 32)
        /\ log[i].bytes = << 255, 255, 255, 255 >>
        /\ write_signed_Varint(log[i].v).bytes = << 1 >>
        /\ lastR.err = NoErr
        /\ lastR.out = log[i].v

\* The last call on the Reader was a raw read: readBytes or readByte.
IsRawRead == lastR.op \in {"readBytes", "readByte"}

\* The bytes of the source after the position the last raw read started at.
Remaining == Len(buf) - lastR.rd0.pos

(***************************************************************************)
(* C19: a Reader is forward-only: a read never moves the position back and *)
(* a failed Reader stays failed.  A read, single-byte or bulk, fails with  *)
(* UnexpectedEOF whenever fewer bytes remain than it requests.  On a       *)
(* Reader that has not failed, a read that requests no more bytes than     *)
(* remain succeeds, returns exactly the next bytes of the source, and      *)
(* advances the position by the requested count.  Once a read has failed,  *)
(* every later read fails with UnexpectedEOF and returns nothing, also one *)
(* that requests zero bytes.                                               *)
(***************************************************************************)
C19_ReaderForwardOnly ==
    IsRawRead =>
        /\ rd.pos >= lastR.rd0.pos
        /\ rd.pos <= Len(buf)
        /\ lastR.rd0.fail => rd.fail
        /\ lastR.err \in {NoErr, "UnexpectedEOF"}
        /\ lastR.n > Remaining => lastR.err = "UnexpectedEOF" /\ rd.fail
        /\ (lastR.n <= Remaining /\ ~lastR.rd0.fail) => lastR.err = NoErr
        /\ lastR.rd0.fail => lastR.err = "UnexpectedEOF" /\ rd = lastR.rd0
        /\ lastR.err = NoErr =>
             /\ ~rd.fail
             /\ rd.pos = lastR.rd0.pos + lastR.n
             /\ Len(lastR.data) = lastR.n
             /\ \A k \in 1..lastR.n : lastR.data[k] = buf[lastR.rd0.pos + k]
        /\ (lastR.err # NoErr /\ lastR.op = "readByte") => lastR.data = << >>
        /\ (lastR.err # NoErr /\ lastR.op = "readBytes") =>
             /\ Len(lastR.data) < lastR.n \/ lastR.n = 0
             /\ \A k \in 1..Len(lastR.data) : lastR.data[k] = buf[lastR.rd0.pos + k]

\* A bulk read in the middle of the source that takes exactly the bytes that
\* remain.
C19_Witness ==
    /\ IsRawRead
    /\ lastR.op = "readBytes"
    /\ lastR.rd0.pos = 1 /\ lastR.n = 2 /\ Len(buf) = 3
    /\ lastR.err = NoErr
    /\ lastR.data = << 7, 255 >>
    /\ rd.pos = 3

\* C19 as stated: whatever happened before, a read that requests no more
\* bytes than remain succeeds and advances the position by that count.
C19_AsStated ==
    IsRawRead =>
        /\ rd.pos >= lastR.rd0.pos
        /\ lastR.n > Remaining => lastR.err = "UnexpectedEOF"
        /\ lastR.n <= Remaining =>
             /\ lastR.err = NoErr
             /\ rd.pos = lastR.rd0.pos + lastR.n

\* The bytes of a fixed-width integer in the opposite order.
ByteReversed(v) ==
    [i \in 1..Len(v) |->
        v[8 * ((Len(v) \div 8) - 1 - ((i - 1) \div 8)) + ((i - 1) % 8) + 1]]

\* What a fixed-width integer written under endian a decodes to under endian b.
AcrossEndian(v, a, b) == IF a = b THEN v ELSE ByteReversed(v)

(***************************************************************************)
(* C20: GlobalOptions is read at the moment of each codec call, never      *)
(* snapshotted.  Whatever the configuration was changed to between the     *)
(* calls of a session, a fixed-width integer is written in the byte order  *)
(* current at its write call and decoded in the byte order current at its  *)
(* read call, so that it decodes to the byte-reversed value when the two   *)
(* differ; and a string or a sequence whose length or count exceeds the    *)
(* maximum current at the read call raises LengthOverflow, whatever the    *)
(* maximum was when it was written, and decodes when it does not.          *)
(***************************************************************************)
C20_ConfigReadAtCall ==
    /\ \A i \in 1..Len(log) :
         (log[i].ty = UInt(16) /\ log[i].p = Fixed(0)) =>
            log[i].bytes = IF log[i].o.endian = "little"
                           THEN << Val(log[i].v) % 256, Val(log[i].v) \div 256 >>
                           ELSE << Val(log[i].v) \div 256, Val(log[i].v) % 256 >>
    /\ \A i \in ReadBack :
         LET v == log[i].v
             a == log[i].o.endian
             b == lastR.o.endian
         IN  /\ (lastR.ty = UInt(16) /\ lastR.p = Fixed(0)) =>
                  /\ lastR.err = NoErr
                  /\ lastR.out = AcrossEndian(v, a, b)
             /\ (lastR.ty = Str /\ lastR.p = Varint) =>
                  IF Len(v) > lastR.o.max_string_size
                  THEN lastR.err = "LengthOverflow"
                  ELSE lastR.err = NoErr /\ lastR.out = v
             /\ (lastR.ty = Triple /\ lastR.p = Varint) =>
                  IF Len(v) > lastR.o.max_container_size
                  THEN lastR.err = "LengthOverflow"
                  ELSE /\ lastR.err = NoErr
                       /\ lastR.out = [n \in 1..Len(v) |-> AcrossEndian(v[n], a, b)]

\* Two integers written to one stream, the byte order changed in between;
\* the second is read, after another change, in the order of the first, and
\* comes out byte-reversed.
C20_Witness ==
    \E i \in ReadBack :
        /\ Len(log) = 2 /\ i = 2
        /\ log[1].o.endian = "big" /\ log[2].o.endian = "little"
        /\ buf = << 1, 2, 2, 1 >>
        /\ lastR.o.endian = "big"
        /\ lastR.err = NoErr
        /\ log[2].v = Bits(258, 16)
        /\ lastR.out = Bits(513, 16)

\* A container type in the sense of the tag table: string, byte buffer,
\* sequence or key-value collection.
IsContainer(ty) == ty.k \in {"string", "bytes", "vector", "map"}

Reversed(b) == [n \in 1..Len(b) |-> b[Len(b) + 1 - n]]

\* The other setting of GlobalOptions::endian.
OtherEndian(o) == [o EXCEPT !.endian = IF o.endian = "big" THEN "little" ELSE "big"]

\* The bytes the write call of log entry e would have produced under the
\* other byte order.
UnderOtherEndian(e) == bsp_write(e.ty, e.p, e.v, OtherEndian(e.o)).bytes

(***************************************************************************)
(* C22: the bytes of a fixed-width integer depend on the configured byte   *)
(* order: what is written under little is the reverse of what is written   *)
(* under big.  The bytes of a fixed-width float do not: they are the       *)
(* object representation of the value, the same under either setting.      *)
(***************************************************************************)
C22_ByteOrderOfFixedWidth ==
    \A i \in 1..Len(log) :
        LET e == log[i]
        IN  /\ (e.p = Fixed(0) /\ IsInt(e.ty)) =>
                 /\ UnderOtherEndian(e) = Reversed(e.bytes)
                 /\ Len(e.bytes) = e.ty.w \div 8
            /\ (e.p = Fixed(0) /\ e.ty.k = "float") =>
                 /\ UnderOtherEndian(e) = e.bytes
                 /\ e.bytes = e.v

\* 3.14f written with byteOrder = little and with byteOrder = big: the same
\* four bytes, which are not their own reverse.
C22_Witness ==
    \E i \in 1..Len(log) :
        /\ log[i].ty = Float(32) /\ log[i].p = Fixed(0)
        /\ log[i].o.endian = "big"
        /\ log[i].bytes = << 195, 245, 72, 64 >>
        /\ UnderOtherEndian(log[i]) = << 195, 245, 72, 64 >>

\* C22 as stated: for integers and for floats, the bytes under little are the
\* reverse of the bytes under big.
C22_AsStated ==
    \A i \in 1..Len(log) :
        LET e == log[i]
        IN  (e.p = Fixed(0) /\ (IsInt(e.ty) \/ e.ty.k = "float")) =>
                UnderOtherEndian(e) = Reversed(e.bytes)

\* The last read call decoded a boolean under FixedWidth from a Reader that
\* had not failed.
IsBoolRead ==
    /\ lastR.op = "read"
    /\ lastR.ty = Bool /\ lastR.p = Fixed(0)
    /\ ~lastR.rd0.fail

(***************************************************************************)
(* C23: a boolean under FixedWidth is one byte.  Encode writes 0x00 for    *)
(* false and 0x01 for true and nothing else; decode of a stream with a     *)
(* byte left consumes exactly that byte and yields false for 0x00 and true *)
(* for 0x01 (and for every other non-zero byte); with no byte left it      *)
(* raises UnexpectedEOF.                                                   *)
(***************************************************************************)
C23_BooleanOneByte ==
    /\ \A i \in 1..Len(log) :
         (log[i].ty = Bool /\ log[i].p = Fixed(0)) =>
            /\ log[i].err = NoErr
            /\ log[i].bytes = IF log[i].v THEN << 1 >> ELSE << 0 >>
    /\ IsBoolRead =>
         IF lastR.rd0.pos < Len(buf)
         THEN /\ lastR.err = NoErr
              /\ Consumed = 1
              /\ buf[lastR.rd0.pos + 1] = 0 => lastR.out = FALSE
              /\ buf[lastR.rd0.pos + 1] = 1 => lastR.out = TRUE
              /\ buf[lastR.rd0.pos + 1] > 1 => lastR.out = TRUE
         ELSE /\ lastR.err = "UnexpectedEOF"
              /\ Consumed = 0

\* true written as 0x01 and read back into a target that held false.
C23_Witness ==
    \E i \in ReadBack :
        /\ IsBoolRead
        /\ log[i].v = TRUE
        /\ buf = << 1 >>
        /\ lastR.out0 = FALSE
        /\ lastR.out = TRUE
        /\ Consumed = 1

\* The last read call decoded a byte view.
IsViewRead == lastR.op = "read" /\ lastR.ty = ByteView /\ lastR.p = Varint

\* The buffers the last read call allocated with new[].
Allocated == {k \in 1..Len(lastR.ev) : lastR.ev[k].op = "new"}

\* The view the last read call left to its caller is the one made for the
\* buffer of allocation k.
HandedOver(k) ==
    /\ lastR.err = NoErr
    /\ lastR.out.size = lastR.ev[k].n
    /\ Len(lastR.out.data) = lastR.ev[k].n

(***************************************************************************)
(* C24: every buffer a decode of a byte view allocates is handed to the    *)
(* caller through the view, data pointing at it and size the decoded       *)
(* length; no decode, successful or failed (LengthOverflow, or             *)
(* UnexpectedEOF on the payload), leaves an allocated buffer that no view  *)
(* points at.                                                              *)
(***************************************************************************)
C24_AsStated == IsViewRead => \A k \in Allocated : HandedOver(k)

\* What the decode does: a complete payload is handed over in one fresh
\* buffer; a failure on the prefix allocates nothing; a payload that ends
\* early leaves the buffer allocated and the caller's view as it was.
ViewBufferOnFailure ==
    IsViewRead =>
        CASE lastR.err = NoErr ->
                /\ Cardinality(Allocated) = 1
                /\ \A k \in Allocated : HandedOver(k)
          [] lastR.err \in {"LengthOverflow", "InvalidVarint"} -> Allocated = {}
          [] lastR.err = "UnexpectedEOF" ->
                /\ Cardinality(Allocated) <= 1
                /\ lastR.out = lastR.out0

\* Log entry i holds a value that reads back as written, or a string under
\* FixedWidth(N), which reads back cut or padded.
ReadsBack(i) ==
    \/ RoundTrippable(log[i].ty, log[i].p, log[i].v, log[i].o)
    \/ log[i].ty = Str /\ log[i].p.p = "Fixed"

Neutral(o) ==
    [o EXCEPT !.error_policy = "STRICT", !.strict_eof = FALSE,
              !.max_depth = default_max_depth]

\* The result of the last read call, had the three settings been at their
\* defaults.
NeutralRead ==
    bsp_read(lastR.ty, lastR.p, [is |-> buf, o |-> Neutral(lastR.o), j |-> 0],
             lastR.rd0, lastR.out0)

\* Levels of containers and boxes in a type.
RECURSIVE Depth(_)
Depth(ty) ==
    CASE ty.k \in {"vector", "option", "pval"} -> 1 + Depth(ty.elem)
      [] OTHER -> 0

OnFailedReader == lastR.op = "read" /\ lastR.rd0.fail

\* Decoders that make no call on the Reader: `if (N) readBytes`, resize(0),
\* clear() and a loop of zero rounds.
RequestsNothing(ty, p) == p = Fixed(0) /\ IsContainer(ty)

IsTerminatedChainRead ==
    /\ IsVarintIntRead
    /\ LeadingCont(buf, lastR.rd0.pos) < 10
    /\ lastR.rd0.pos + LeadingCont(buf, lastR.rd0.pos) < Len(buf)

\* The chain the last call decoded.
ChainRead ==
    SubSeq(buf, lastR.rd0.pos + 1, lastR.rd0.pos + LeadingCont(buf, lastR.rd0.pos) + 1)

\* Bit b (1 = least significant) of the sum of payload_i * 128^i of the chain
\* read, reduced modulo 2^64.
SumBit(b) == IF b > W64 THEN 0 ELSE ChainBit(ChainRead, b)

(***************************************************************************)
(* C28: varint decode accepts every terminated chain of at most 10 bytes   *)
(* and returns the sum of payload_i * 128^i modulo 2^64 (read here into a  *)
(* 64-bit unsigned target).  Non-minimal chains such as 80 00 decode, to   *)
(* the value of their minimal form; payload bits of the tenth byte above   *)
(* bit 63 are dropped without InvalidVarint, so that FF x 9 followed by 7F *)
(* and by 01 decode to the same value.                                     *)
(***************************************************************************)
C28_VarintDecodeLenient ==
    (IsTerminatedChainRead /\ lastR.ty = UInt(64)) =>
        /\ lastR.err = NoErr
        /\ Consumed = Len(ChainRead)
        /\ \A b \in 1..W64 : lastR.out[b] = SumBit(b)
        /\ ChainRead = <<128, 0>> => lastR.out = Bits(0, W64)
        /\ ChainRead \in {Chain(9, 255, 127), Chain(9, 255, 1)} =>
              lastR.out = LowOnes(W64, W64)
        /\ ChainRead \in {<<0>>, Chain(3, 128, 0), Chain(9, 128, 0)} =>
              lastR.out = Bits(0, W64)

\* A ten-byte chain whose last byte carries payload above bit 63 is decoded.
C28_Witness ==
    /\ IsTerminatedChainRead /\ lastR.ty = UInt(64)
    /\ ChainRead = Chain(9, 255, 127)
    /\ lastR.err = NoErr
    /\ lastR.out = LowOnes(W64, W64)

(***************************************************************************)
(* C29: decoding a varint into an integer type narrower than 64 bits never *)
(* raises an error for a value out of the type's range.  An unsigned w-bit *)
(* target receives the decoded 64-bit value modulo 2^w; a signed w-bit     *)
(* target receives the low w bits of the ZigZag-decoded 64-bit value, bit  *)
(* b of which is bit b+1 of the decoded value xor its bit 1.               *)
(***************************************************************************)
C29_NarrowingWraps ==
    (IsTerminatedChainRead /\ lastR.ty.w < W64) =>
        /\ lastR.err = NoErr
        /\ lastR.ty.k = "uint" =>
              \A b \in 1..lastR.ty.w : lastR.out[b] = SumBit(b)
        /\ lastR.ty.k = "int" =>
              \A b \in 1..lastR.ty.w : lastR.out[b] = (SumBit(b + 1) + SumBit(1)) % 2

\* The chain FF FF 7F carries 2^21 - 1: an 8-bit unsigned target receives 255.
C29_Witness ==
    /\ IsTerminatedChainRead
    /\ lastR.ty = UInt(8)
    /\ ChainRead = Chain(2, 255, 127)
    /\ lastR.err = NoErr
    /\ lastR.out = LowOnes(8, 8)

\* The last call decoded, on a good Reader, a type whose encoding opens with
\* a varint prefix of its own: a length, a count, a discriminant or a flag.
IsPrefixedRead ==
    /\ lastR.op = "read" /\ ~lastR.rd0.fail
    /\ lastR.ty.k \in {"string", "bytes", "view", "vector", "map", "variant", "option"}
    /\ lastR.p \in {Varint, Default, Omitted}

\* The prefix the last call met.
PrefixRead == read_uleb128(buf, lastR.rd0)

\* The prefix is one the decoder refuses.
PrefixRefused ==
    /\ IsPrefixedRead
    /\ PrefixRead.err = NoErr
    /\ CASE lastR.ty.k \in {"string", "bytes", "view"} ->
              BvGt(PrefixRead.val, lastR.o.max_string_size)
         [] lastR.ty.k \in {"vector", "map"} ->
              BvGt(PrefixRead.val, lastR.o.max_container_size)
         [] lastR.ty.k = "variant" -> BvGe(PrefixRead.val, Len(lastR.ty.alts))
         [] OTHER -> FALSE

(***************************************************************************)
(* C30: a decode that fails on its own prefix leaves the target unchanged. *)
(* When the length of a string, byte-buffer or byte view, or the count of  *)
(* a sequence or key-value collection, exceeds its limit, the call raises  *)
(* LengthOverflow; when the discriminant of a tagged union is out of       *)
(* range, it raises VariantOutOfRange; either way the target holds what it *)
(* held before, only the prefix bytes are consumed and nothing has been    *)
(* allocated.  Decoding an optional with flag 0 clears has_value and       *)
(* leaves the stored payload untouched.                                    *)
(***************************************************************************)
C30_PrefixFailureKeepsTarget ==
    /\ PrefixRefused =>
         /\ lastR.err = IF lastR.ty.k = "variant" THEN "VariantOutOfRange"
                        ELSE "LengthOverflow"
         /\ lastR.out = lastR.out0
         /\ rd = PrefixRead.rd
         /\ lastR.ev = << >>
    /\ (IsPrefixedRead /\ lastR.ty.k = "option" /\ PrefixRead.err = NoErr
          /\ PrefixRead.val = Bits(0, W64)) =>
         /\ lastR.err = NoErr
         /\ ~lastR.out.has_value
         /\ lastR.out.value = lastR.out0.value
         /\ rd = PrefixRead.rd

\* A count above max_container_size met by a sequence that held elements.
C30_Witness ==
    /\ PrefixRefused
    /\ lastR.ty.k = "vector"
    /\ lastR.out0 # << >>
    /\ lastR.err = "LengthOverflow"
    /\ lastR.out = lastR.out0

====
